---- MODULE Spec2Model ----
(***************************************************************************)
(* StarryPy: the plugin host (packet dispatch, routing, dependency         *)
(* resolution) and the player directory (login admission), modelled from   *)
(* plugin_manager.py and core_plugins/player_manager/manager.py.           *)
(***************************************************************************)
EXTENDS Integers, Sequences, FiniteSets, TLC

\* ------------------------------------------------------------------ bounds
NumPlugins == 2
NumConns == 2
MaxPackets == 2
NumUuids == 2
NumIps == 2
MaxLogins == 1
MaxNamed == 3

Plugins == 1..NumPlugins
Conns == 1..NumConns

\* `protocol is None` (plugin_manager.py:249); connections are 1..NumConns
None == 0

\* the two hook timings route passes to do (plugin_manager.py:303, 311)
Whens == {"on", "after"}

\* packet types (data.id); 2 has hooks in no index the model starts from, so
\* that self.packets.get(data.id, {}) also takes its default
PacketIds == {1, 2}
HookedIds == {1}

\* what a hook does when it is called: it returns True (or any truthy
\* value), False, None, a falsy value that is not False (0, '', []), or raises
Outcomes == {"True", "False", "None", "Zero", "Raise"}

VARIABLES
    packets,          \* self.packets: id -> when -> the dict of hooks, as the
                      \* sequence of plugin names in the dict's iteration order
    plugin_protocol,  \* plugin.protocol of every plugin in the hook index, the
                      \* attribute do assigns
    do_call,          \* the most recent call of PluginManager.do and its effect
    inbox,            \* per connection: the packets received and not yet routed
    pkts,             \* per connection: what happened to each packet so far
    entered,          \* per connection: the packets route was called for, in order
    last_event,       \* the calls made by the most recent reactor callback
    delayed,          \* the reactor's pending deferLater calls of do(.., 'after', ..)
    class_depends,    \* the `depends` attribute of every plugin class
    plugin_classes,   \* self.plugin_classes: the names of the registered classes
    plugins,          \* self.plugins: the names of the instantiated plugins
    plugins_waiting_to_load,  \* self.plugins_waiting_to_load, by name
    load_order,       \* self.load_order
    plugin_links,     \* per plugin class, the names wired into its `plugins` map
    loader_log,       \* the outcome of the loader's most recent call
    players,          \* the players table, by uuid
    bans,             \* the ips of the bans table
    admitted,         \* the uuids fetch_or_create returned a record for whose
                      \* login has not completed yet
    fetch_log,        \* the call of fetch_or_create that was the last operation
                      \* on the directory, and its outcome
    util_call,        \* the most recent call of a decorated handler or of a
                      \* utility function, and its outcome
    commands,         \* CommandDispatchPlugin.commands: name -> handler
    command_log,      \* the most recent call into the command plugin
    instance_protocol, \* the protocol attribute on_chat_sent has set on a
                      \* handler's own instance: instance -> connection
    protect,          \* the state of the planet protection plugin
    protect_log,      \* the most recent packet the plugin was asked about
    config,           \* the configuration store and its files
    config_log        \* the most recent operation on the configuration store

dispatch_vars == <<packets, plugin_protocol, do_call>>
route_vars == <<inbox, pkts, entered, last_event, delayed>>

loader_vars ==
    <<class_depends, plugin_classes, plugins, plugins_waiting_to_load,
      load_order, plugin_links, loader_log>>

player_vars == <<players, bans, admitted, fetch_log>>
util_vars == <<util_call>>
command_vars == <<commands, command_log, instance_protocol>>
protect_vars == <<protect, protect_log>>
config_vars == <<config, config_log>>
aux_vars == <<util_vars, command_vars, protect_vars, config_vars>>

vars ==
    <<packets, plugin_protocol, do_call, inbox, pkts, entered, last_event,
      delayed, class_depends, plugin_classes, plugins,
      plugins_waiting_to_load, load_order, plugin_links, loader_log,
      players, bans, admitted, fetch_log, util_vars, command_vars,
      protect_vars, config_vars>>

\* ----------------------------------------------------------------- helpers
Range(s) == {s[i] : i \in 1..Len(s)}

\* the sequences over S without repetition: a dict's keys in iteration order
InjSeqs(S) ==
    {s \in UNION {[1..n -> S] : n \in 0..Cardinality(S)} :
        \A i, j \in 1..Len(s) : i # j => s[i] # s[j]}

\* Python's all() over the appended results: "True" is truthy, "Zero" is not
All(return_values) ==
    \A i \in 1..Len(return_values) : return_values[i] = "True"

\* ------------------------------------------------- the state at start-up
\* no call of do yet
NoCall ==
    [called |-> FALSE, protocol |-> None, when |-> "on", id |-> 1,
     res |-> <<>>, ret |-> TRUE, invoked |-> <<>>, logged |-> <<>>,
     propagated |-> FALSE]

\* no packet type has a hook
EmptyIndex == [id \in PacketIds |-> [w \in Whens |-> <<>>]]

\* nothing received yet on any connection
InitRouteVars ==
    /\ inbox = [c \in Conns |-> <<>>]
    /\ pkts = [c \in Conns |-> <<>>]
    /\ entered = [c \in Conns |-> <<>>]
    /\ last_event = [c |-> None, k |-> 0, when |-> "on", trace |-> <<>>]
    /\ delayed = {}

\* __init__ (plugin_manager.py:55-60): nothing imported, nothing loaded
NoLoaderCall ==
    [call |-> "none", keys |-> {}, active |-> {}, critical |-> FALSE,
     propagated |-> FALSE, fatal |-> FALSE, raised |-> "none",
     events |-> <<>>]

InitLoaderVars ==
    /\ class_depends = [p \in Plugins |-> {}]
    /\ plugin_classes = {}
    /\ plugins = {}
    /\ plugins_waiting_to_load = {}
    /\ load_order = <<>>
    /\ plugin_links = [p \in Plugins |-> {}]
    /\ loader_log = NoLoaderCall

\* UserLevels (manager.py:27-32)
GUEST == 0
REGISTERED == 1
MODERATOR == 10
ADMIN == 100
OWNER == 1000
UserLevels == {GUEST, REGISTERED, MODERATOR, ADMIN, OWNER}

Uuids == 1..NumUuids
Ips == 1..NumIps

\* the identities of the specification of names
NamedUuids == 1..MaxNamed

\* the address of the peer of a connection, which the connection presents
\* as ip at login
PeerIp(c) == ((c - 1) % NumIps) + 1

\* self.config.owner_uuid (manager.py:122): the uuid the configuration names
OwnerUuid == 1

\* a player name: the name as typed and the '_' characters affixed to it;
\* the names a client can present differ in case only
Stems == {"Bob", "bob"}
RequestedNames == [stem : Stems, us : {0}]

\* func.lower(name)
Lower(name) == [name EXCEPT !.stem = "bob"]

NoPlayer ==
    [exists |-> FALSE, name |-> [stem |-> "bob", us |-> 0],
     access_level |-> GUEST, logged_in |-> FALSE, protocol |-> None,
     ip |-> 0, ips |-> <<>>]

\* a record left in the store by an earlier run of the process
StoredPlayer(level) ==
    [exists |-> TRUE, name |-> [stem |-> "bob", us |-> 0],
     access_level |-> level, logged_in |-> FALSE, protocol |-> None,
     ip |-> 1, ips |-> <<1>>]

\* fetch_log holds the arguments and the outcome of fetch_or_create while it
\* is the most recent operation on the directory
NoFetch ==
    [called |-> FALSE, uuid |-> 0, name |-> [stem |-> "bob", us |-> 0],
     ip |-> 0, result |-> "none",
     existed |-> FALSE, logged_before |-> FALSE, level_before |-> GUEST]

\* no handler and no utility function called yet
NoUtilCall == [op |-> "none"]

InitUtilVars == util_call = NoUtilCall
\* the names commands are registered and typed under, and their lower case
CommandNames == {"who", "WHO", "ban"}
LowerName(n) == IF n = "WHO" THEN "who" ELSE n
Unset == "unset"

\* self.commands = {} (activate)
NoCommands == [n \in CommandNames |-> Unset]

\* no instance has a protocol attribute of its own
NoAttribute == [p \in {} |-> None]

InitCommandVars ==
    /\ commands = NoCommands
    /\ command_log = [op |-> "none"]
    /\ instance_protocol = NoAttribute
\* planets, the names of players, and the payloads of projectiles
Planets == {"P", "Q"}
ActorNames == {"X", "Y"}
Payloads == {"water", "rock"}

\* the settings of the planet protection plugin as activate() finds them in
\* a configuration that has none (planet_protect_plugin.py:30-43); keys are
\* the keys of player_planets, allow its lists
NoSettings ==
    [protected_planets |-> {}, keys |-> {},
     allow |-> [p \in Planets |-> {}], blacklist |-> {},
     protect_everything |-> FALSE]

InitProtectVars == protect = NoSettings /\ protect_log = [op |-> "none"]
\* the top-level settings of the configuration document
TopKeys == {"motd", "port"}

\* the configuration store before it is constructed
NoConfig == [phase |-> "none"]

InitConfigVars == config = NoConfig /\ config_log = [op |-> "none"]

InitAuxVars ==
    /\ InitUtilVars
    /\ InitCommandVars
    /\ InitProtectVars
    /\ InitConfigVars

\* no store, no attempt yet (the other specifications' player directory)
InitPlayerVars ==
    /\ players = [u \in Uuids |-> NoPlayer]
    /\ bans = {}
    /\ admitted = {}
    /\ fetch_log = NoFetch

\* ------------------------------------------------------ PluginManager.do
\* the loop of do over the hooks, from hook i on; res[p] is what the hook of
\* plugin p does when called.  The result tells which hooks were called, in
\* order, which calls were logged by the except clause, whether an exception
\* left do, and the value do returned.
RECURSIVE DoLoopNoneFalsy(_, _, _, _, _, _)
DoLoopNoneFalsy(hooks, res, i, return_values, invoked, logged) ==
    IF i > Len(hooks)
    THEN [ret |-> All(return_values), invoked |-> invoked,
          logged |-> logged, propagated |-> FALSE]
    ELSE LET p == hooks[i]
             inv == Append(invoked, p)
         IN CASE res[p] = "Raise" ->
                   DoLoopNoneFalsy(hooks, res, i + 1, return_values, inv,
                                   Append(logged, p))
              [] res[p] = "False" ->
                   [ret |-> FALSE, invoked |-> inv,
                    logged |-> logged, propagated |-> FALSE]
              [] res[p] = "None" ->
                   DoLoopNoneFalsy(hooks, res, i + 1,
                                   Append(return_values, "Zero"), inv, logged)
              [] OTHER ->
                   DoLoopNoneFalsy(hooks, res, i + 1,
                                   Append(return_values, res[p]), inv, logged)

RECURSIVE DoLoopNoShortCircuit(_, _, _, _, _, _)
DoLoopNoShortCircuit(hooks, res, i, return_values, invoked, logged) ==
    IF i > Len(hooks)
    THEN [ret |-> All(return_values), invoked |-> invoked,
          logged |-> logged, propagated |-> FALSE]
    ELSE LET p == hooks[i]
             inv == Append(invoked, p)
         IN CASE res[p] = "Raise" ->
                   DoLoopNoShortCircuit(hooks, res, i + 1, return_values, inv,
                                        Append(logged, p))
              [] res[p] = "False" ->
                   DoLoopNoShortCircuit(hooks, res, i + 1,
                                        Append(return_values, "Zero"), inv,
                                        logged)
              [] res[p] = "None" ->
                   DoLoopNoShortCircuit(hooks, res, i + 1,
                                        Append(return_values, "True"), inv,
                                        logged)
              [] OTHER ->
                   DoLoopNoShortCircuit(hooks, res, i + 1,
                                        Append(return_values, res[p]), inv,
                                        logged)

RECURSIVE DoLoopRaiseVetoes(_, _, _, _, _, _)
DoLoopRaiseVetoes(hooks, res, i, return_values, invoked, logged) ==
    IF i > Len(hooks)
    THEN [ret |-> All(return_values), invoked |-> invoked,
          logged |-> logged, propagated |-> FALSE]
    ELSE LET p == hooks[i]
             inv == Append(invoked, p)
         IN CASE res[p] = "Raise" ->
                   DoLoopRaiseVetoes(hooks, res, i + 1,
                                     Append(return_values, "Zero"), inv,
                                     Append(logged, p))
              [] res[p] = "False" ->
                   [ret |-> FALSE, invoked |-> inv,
                    logged |-> logged, propagated |-> FALSE]
              [] res[p] = "None" ->
                   DoLoopRaiseVetoes(hooks, res, i + 1,
                                     Append(return_values, "True"), inv, logged)
              [] OTHER ->
                   DoLoopRaiseVetoes(hooks, res, i + 1,
                                     Append(return_values, res[p]), inv, logged)

RECURSIVE DoLoop(_, _, _, _, _, _)
DoLoop(hooks, res, i, return_values, invoked, logged) ==
    IF i > Len(hooks)
    THEN [ret |-> All(return_values), invoked |-> invoked,
          logged |-> logged, propagated |-> FALSE]
    ELSE LET p == hooks[i]
             inv == Append(invoked, p)
         IN CASE res[p] = "Raise" ->
                   DoLoop(hooks, res, i + 1, return_values, inv,
                          Append(logged, p))
              [] res[p] = "False" ->
                   [ret |-> FALSE, invoked |-> inv,
                    logged |-> logged, propagated |-> FALSE]
              [] res[p] = "None" ->
                   DoLoop(hooks, res, i + 1, Append(return_values, "True"),
                          inv, logged)
              [] OTHER ->
                   DoLoop(hooks, res, i + 1, Append(return_values, res[p]),
                          inv, logged)

\* the hooks do looks up: self.packets.get(data.id, {}).get(when, {})
HooksFor(index, id, when) == index[id][when]

\* do(protocol, when, data) as a function of the index and the hooks' conduct
DoResult(index, protocol, when, id, res) ==
    IF protocol = None
    THEN [ret |-> TRUE, invoked |-> <<>>, logged |-> <<>>,
          propagated |-> FALSE]
    ELSE DoLoop(HooksFor(index, id, when), res, 1, <<>>, <<>>, <<>>)

\* what do can do, over everything the hooks it finds can do
DoResults(index, protocol, when, id) ==
    {DoResult(index, protocol, when, id, res) :
        res \in [Range(HooksFor(index, id, when)) -> Outcomes]}

\* plugin.protocol = protocol, for every hook that was called
BindProtocol(bound, protocol, invoked) ==
    [p \in Plugins |-> IF p \in Range(invoked) THEN protocol ELSE bound[p]]

\* one call of do from any caller
Do(protocol, when, id) ==
    \E res \in [Range(HooksFor(packets, id, when)) -> Outcomes] :
        LET r == DoResult(packets, protocol, when, id, res)
        IN /\ do_call' = [called |-> TRUE, protocol |-> protocol,
                          when |-> when, id |-> id,
                          res |-> IF protocol = None THEN <<>> ELSE res,
                          ret |-> r.ret, invoked |-> r.invoked,
                          logged |-> r.logged, propagated |-> r.propagated]
           /\ plugin_protocol' = BindProtocol(plugin_protocol, protocol,
                                              r.invoked)
           /\ UNCHANGED <<packets, route_vars, loader_vars, player_vars, aux_vars>>

\* ----------------------------------------------------------------- loader
\* the orders in which iteritems() can yield the names of S
Perms(S) == {s \in InjSeqs(S) : Len(s) = Cardinality(S)}

\* the while loop of resolve_dependencies: keys are the names left in
\* dependency_hash, deps their dependency sets, active the keys of
\* self.plugins, order the load order so far (its names are the keys of
\* plugins_waiting_to_load).  The result is every outcome the loop can
\* have, over the orders in which a round's ready names are appended.
RECURSIVE ResolveLoopKnownSatisfies(_, _, _, _)
ResolveLoopKnownSatisfies(keys, deps, active, order) ==
    IF keys = {}
    THEN {[load_order |-> order, raised |-> FALSE]}
    ELSE LET ready == {x \in keys : deps[x] = {}}
         IN IF ready = {}
            THEN {[load_order |-> order, raised |-> TRUE]}
            ELSE UNION {
                   LET next == order \o round
                       plugin_set == active \cup Range(next) \cup keys
                   IN ResolveLoopKnownSatisfies(keys \ ready,
                          [n \in DOMAIN deps |-> deps[n] \ plugin_set],
                          active, next)
                   : round \in Perms(ready)}

RECURSIVE ResolveLoopEmptiesOnError(_, _, _, _)
ResolveLoopEmptiesOnError(keys, deps, active, order) ==
    IF keys = {}
    THEN {[load_order |-> order, raised |-> FALSE]}
    ELSE LET ready == {x \in keys : deps[x] = {}}
         IN IF ready = {}
            THEN {[load_order |-> <<>>, raised |-> TRUE]}
            ELSE UNION {
                   LET next == order \o round
                       plugin_set == active \cup Range(next)
                   IN ResolveLoopEmptiesOnError(keys \ ready,
                          [n \in DOMAIN deps |-> deps[n] \ plugin_set],
                          active, next)
                   : round \in Perms(ready)}

RECURSIVE ResolveLoop(_, _, _, _)
ResolveLoop(keys, deps, active, order) ==
    IF keys = {}
    THEN {[load_order |-> order, raised |-> FALSE]}
    ELSE LET ready == {x \in keys : deps[x] = {}}
         IN IF ready = {}
            THEN {[load_order |-> order, raised |-> TRUE]}
            ELSE UNION {
                   LET next == order \o round
                       plugin_set == active \cup Range(next)
                   IN ResolveLoop(keys \ ready,
                          [n \in DOMAIN deps |-> deps[n] \ plugin_set],
                          active, next)
                   : round \in Perms(ready)}

\* resolve_dependencies(dependency_hash), the hash having the given keys and
\* the dependency sets deps: the load orders it can leave, each with whether
\* UnresolvedOrCircularDependencyError was raised inside (and logged)
Resolutions(keys, deps, active) == ResolveLoop(keys, deps, active, <<>>)

\* import_plugin(name): the module's plugin class is registered (lines
\* 117-131).  depends is an attribute of the class, set by whoever wrote it.
\* The test `plugin not in self.plugin_classes.iterkeys()` compares a class
\* with names, so the class attributes are set anew on every import.
ImportPlugin(name) ==
    /\ ~loader_log.fatal
    /\ plugin_classes' = plugin_classes \cup {name}
    /\ \E d \in SUBSET Plugins :
          class_depends' = [class_depends EXCEPT ![name] =
                               IF name \in plugin_classes THEN @ ELSE d]
    /\ plugin_links' = [plugin_links EXCEPT ![name] = {}]
    /\ UNCHANGED <<dispatch_vars, route_vars, plugins,
                   plugins_waiting_to_load, load_order, loader_log,
                   player_vars, aux_vars>>

\* resolve_dependencies called with the dependencies of some of the
\* registered classes
ResolveDependencies(keys) ==
    /\ ~loader_log.fatal
    /\ keys \subseteq plugin_classes
    /\ \E r \in Resolutions(keys, class_depends, plugins) :
          /\ load_order' = r.load_order
          /\ plugins_waiting_to_load' = Range(r.load_order)
          /\ loader_log' = [call |-> "resolve", keys |-> keys,
                            active |-> plugins, critical |-> r.raised,
                            propagated |-> FALSE, fatal |-> FALSE,
                            raised |-> "none", events |-> <<>>]
    /\ UNCHANGED <<dispatch_vars, route_vars, class_depends, plugin_classes,
                   plugins, plugin_links, player_vars, aux_vars>>

\* map_plugin_packets(plugin): the plugin's hooks enter the index; every
\* plugin class of the model overrides the handlers of the hooked packet
\* types at both timings
MapPluginPackets(index, p) ==
    [id \in PacketIds |->
        [w \in Whens |->
            IF id \in HookedIds /\ p \notin Range(index[id][w])
            THEN Append(index[id][w], p)
            ELSE index[id][w]]]

RECURSIVE MapAll(_, _)
MapAll(index, names) ==
    IF names = <<>> THEN index
    ELSE MapAll(MapPluginPackets(index, Head(names)), Tail(names))

\* the inter-plugin map of p at the time its activate() is called: the
\* instances of dependencies[p] have been put into it (lines 213-218)
WiredAfterActivation(links, p, depends) == links[p]

WiredAtActivation(links, p, depends) == links[p] \cup depends[p]

\* the index after the try block of activate_plugins for p: map_plugin_packets
\* follows activate() and is skipped when that raised
HooksAlways(index, p, raised) == MapPluginPackets(index, p)

HooksAfter(index, p, raised) ==
    IF raised THEN index ELSE MapPluginPackets(index, p)

\* the for loop of activate_plugins over new_plugins from place i on.  st
\* holds self.plugins, the names whose activate() has returned, the
\* inter-plugin maps, the index, and one event per activate() called: the
\* name, its map and the activated names at that moment.  fail_at is the
\* place of the plugin whose activate() raises FatalPluginError, 0 for none.
RECURSIVE ActivateLoop(_, _, _, _, _)
ActivateLoop(new_plugins, i, st, depends, fail_at) ==
    IF i > Len(new_plugins) THEN st
    ELSE LET p == new_plugins[i]
             made == st.plugins \cup {p}
         IN IF ~(depends[p] \subseteq made)
            THEN [st EXCEPT !.plugins = made, !.raised = "KeyError"]
            ELSE LET wired == [st.links EXCEPT
                                  ![p] = WiredAtActivation(st.links, p, depends)]
                     called == [st EXCEPT
                                  !.plugins = made,
                                  !.links = wired,
                                  !.index = HooksAfter(st.index, p, i = fail_at),
                                  !.events = Append(@, [name |-> p,
                                                        wired |-> wired[p],
                                                        active |-> st.active])]
                 IN IF i = fail_at
                    THEN [called EXCEPT !.raised = "FatalPluginError"]
                    ELSE ActivateLoop(new_plugins, i + 1,
                                      [called EXCEPT !.active = @ \cup {p}],
                                      depends, fail_at)

\* load_plugins(names): import, resolve the dependencies of every registered
\* class, and activate the plugins of the load order that are not yet in
\* self.plugins.  activate_plugins stops at the first plugin whose activate()
\* raises FatalPluginError (fail_at; 0 when none does) and re-raises it.
LoadPlugins(names, new_depends) ==
    /\ ~loader_log.fatal
    /\ names # {}
    /\ LET classes == plugin_classes \cup names
           depends == [p \in DOMAIN class_depends |->
                          IF p \in names \ plugin_classes
                          THEN new_depends[p] ELSE class_depends[p]]
           imported == [p \in DOMAIN plugin_links |->
                           IF p \in names THEN {} ELSE plugin_links[p]]
       IN \E r \in Resolutions(classes, depends, plugins) :
            LET new_plugins == SelectSeq(r.load_order,
                                         LAMBDA x : x \notin plugins)
            IN \E fail_at \in 0..Len(new_plugins) :
                 LET st == ActivateLoop(new_plugins, 1,
                               [plugins |-> plugins, active |-> plugins,
                                links |-> imported, index |-> packets,
                                events |-> <<>>, raised |-> "none"],
                               depends, fail_at)
                 IN /\ plugin_classes' = classes
                    /\ class_depends' = depends
                    /\ load_order' = r.load_order
                    /\ plugins_waiting_to_load' = Range(r.load_order)
                    /\ plugins' = st.plugins
                    /\ plugin_links' = st.links
                    /\ packets' = st.index
                    /\ loader_log' = [call |-> "load", keys |-> classes,
                                      active |-> plugins,
                                      critical |-> r.raised,
                                      propagated |-> st.raised # "none",
                                      fatal |-> st.raised # "none",
                                      raised |-> st.raised,
                                      events |-> st.events]
    /\ UNCHANGED <<plugin_protocol, do_call, route_vars, player_vars, aux_vars>>

InitLoader ==
    /\ packets = EmptyIndex
    /\ plugin_protocol = [p \in Plugins |-> None]
    /\ do_call = NoCall
    /\ InitRouteVars
    /\ InitLoaderVars
    /\ InitAuxVars
    /\ InitPlayerVars

NextLoader ==
    \/ \E name \in Plugins : ImportPlugin(name)
    \/ \E names \in SUBSET Plugins :
          \E nd \in [names \ plugin_classes -> SUBSET Plugins] :
              LoadPlugins(names, nd)
    \/ \E keys \in SUBSET Plugins : ResolveDependencies(keys)

SpecLoader == InitLoader /\ [][NextLoader]_vars

\* the packet-hook indexes map_plugin_packets can have built
Indexes ==
    {ix \in [PacketIds -> [Whens -> InjSeqs(Plugins)]] :
        \A id \in PacketIds \ HookedIds : \A w \in Whens : ix[id][w] = <<>>}

InitDo ==
    /\ packets \in Indexes
    /\ plugin_protocol = [p \in Plugins |-> None]
    /\ do_call = NoCall
    /\ InitRouteVars
    /\ InitLoaderVars
    /\ InitAuxVars
    /\ InitPlayerVars

\* do keeps nothing from one call to the next but plugin.protocol, which it
\* only writes: one call from every index, connection, timing and type
NextDo ==
    /\ ~do_call.called
    /\ \E protocol \in Conns \cup {None}, when \in Whens, id \in PacketIds :
        Do(protocol, when, id)

SpecDo == InitDo /\ [][NextDo]_vars

\* ------------------------------------------------------------------ route
\* the calls of the hooks of one dispatch, as trace entries
RECURSIVE HookEvents(_, _)
HookEvents(kind, invoked) ==
    IF invoked = <<>> THEN <<>>
    ELSE <<[kind |-> kind, p |-> Head(invoked)]>>
             \o HookEvents(kind, Tail(invoked))

HandleEvent == <<[kind |-> "handle", p |-> 0]>>

\* wrapped_function, in the order of its calls: do(self, 'on', data), then
\* func(self, data) if do returned a true value
RouteTraceHandlerFirst(invoked, ret) ==
    HandleEvent \o HookEvents("on", invoked)

RouteTrace(invoked, ret) ==
    HookEvents("on", invoked) \o (IF ret THEN HandleEvent ELSE <<>>)

\* the deferLater calls wrapped_function makes: one, after func has returned;
\* func is the protocol's own handler and may raise, which leaves
\* wrapped_function before deferLater is reached
DeferredAlways(ret, handler) == 1

Deferred(ret, handler) == IF ret /\ handler = "ok" THEN 1 ELSE 0

\* the reactor's delayed calls after wrapped_function has made n deferLater
\* calls for packet k of connection c: each deferLater adds a call of its own,
\* the calls made for earlier packets stay
ScheduledLatestOnly(calls, c, k, id, n) ==
    IF n > 0
    THEN {d \in calls : d.c # c} \cup {[c |-> c, k |-> k, id |-> id]}
    ELSE calls

Scheduled(calls, c, k, id, n) ==
    IF n > 0 THEN calls \cup {[c |-> c, k |-> k, id |-> id]} ELSE calls

\* what func(self, data) does when it is called
HandlerOutcomes == {"ok", "raise"}

\* the packets received so far, on all connections
Received == Cardinality({ck \in Conns \X (1..MaxPackets) : ck[2] <= Len(pkts[ck[1]])})

\* a packet of some type is received on connection c
Arrive(c) ==
    /\ Received < MaxPackets
    /\ \E id \in PacketIds :
          pkts' = [pkts EXCEPT ![c] = Append(@,
                      [id |-> id, before |-> "none", handler |-> "none",
                       scheduled |-> 0, after_runs |-> 0])]
    /\ inbox' = [inbox EXCEPT ![c] = Append(@, Len(pkts[c]) + 1)]
    /\ UNCHANGED <<dispatch_vars, entered, last_event, delayed, loader_vars,
                   player_vars, aux_vars>>

\* the protocol frames the next packet of connection c and calls its
\* route-wrapped handler
Route(c) ==
    /\ inbox[c] # <<>>
    /\ LET k == Head(inbox[c])
           id == pkts[c][k].id
       IN \E r \in DoResults(packets, c, "on", id), h \in HandlerOutcomes :
            LET handler == IF r.ret THEN h ELSE "none"
                n == Deferred(r.ret, handler)
            IN /\ plugin_protocol' = BindProtocol(plugin_protocol, c, r.invoked)
               /\ entered' = [entered EXCEPT ![c] = Append(@, k)]
               /\ last_event' = [c |-> c, k |-> k, when |-> "on",
                                 trace |-> RouteTrace(r.invoked, r.ret)]
               /\ pkts' = [pkts EXCEPT ![c][k] =
                              [@ EXCEPT !.before = IF r.ret THEN "true"
                                                   ELSE "false",
                                        !.handler = handler,
                                        !.scheduled = n]]
               /\ delayed' = Scheduled(delayed, c, k, id, n)
    /\ inbox' = [inbox EXCEPT ![c] = Tail(@)]
    /\ UNCHANGED <<packets, do_call, loader_vars, player_vars, aux_vars>>

\* the reactor runs a delayed call: do(self, 'after', data)
FireAfter(d) ==
    /\ d \in delayed
    /\ \E r \in DoResults(packets, d.c, "after", d.id) :
             /\ plugin_protocol' = BindProtocol(plugin_protocol, d.c, r.invoked)
             /\ last_event' = [c |-> d.c, k |-> d.k, when |-> "after",
                               trace |-> HookEvents("after", r.invoked)]
             /\ pkts' = [pkts EXCEPT ![d.c][d.k].after_runs = @ + 1]
    /\ delayed' = delayed \ {d}
    /\ UNCHANGED <<packets, do_call, inbox, entered, loader_vars, player_vars, aux_vars>>

\* every plugin hooks packet type 1 at both timings; type 2 has no hooks
AllHooked ==
    [id \in PacketIds |->
        [w \in Whens |->
            IF id \in HookedIds THEN [i \in 1..NumPlugins |-> i] ELSE <<>>]]

InitRoute ==
    /\ packets = AllHooked
    /\ plugin_protocol = [p \in Plugins |-> None]
    /\ do_call = NoCall
    /\ InitRouteVars
    /\ InitLoaderVars
    /\ InitAuxVars
    /\ InitPlayerVars

NextRoute ==
    \/ \E c \in Conns : Arrive(c)
    \/ \E c \in Conns : Route(c)
    \/ \E d \in delayed : FireAfter(d)

SpecRoute == InitRoute /\ [][NextRoute]_vars

\* ------------------------------------------------------- player directory
\* whois(name): a logged-in player of that name, compared in lower case
Whois(table, name) ==
    \E u \in DOMAIN table :
        /\ table[u].exists /\ table[u].logged_in
        /\ Lower(table[u].name) = Lower(name)

\* while self.whois(name): name += "_"
AffixNameOnce(table, name) ==
    IF Whois(table, name) THEN [name EXCEPT !.us = @ + 1] ELSE name

RECURSIVE AffixName(_, _)
AffixName(table, name) ==
    IF Whois(table, name)
    THEN AffixName(table, [name EXCEPT !.us = @ + 1])
    ELSE name

\* check_bans(ip)
CheckBans(table, ip) == ip \in table

\* the exception fetch_or_create raises, or "ok" (manager.py:95-98)
AdmissionNoBanCheck(table, banned, uuid, ip) ==
    IF table[uuid].exists /\ table[uuid].logged_in THEN "AlreadyLoggedIn"
    ELSE "ok"

AdmissionNoDuplicateCheck(table, banned, uuid, ip) ==
    IF CheckBans(banned, ip) THEN "Banned" ELSE "ok"

Admission(table, banned, uuid, ip) ==
    IF table[uuid].exists /\ table[uuid].logged_in THEN "AlreadyLoggedIn"
    ELSE IF CheckBans(banned, ip) THEN "Banned"
    ELSE "ok"

\* the access level fetch_or_create leaves in the record (manager.py:115,
\* 122-123): GUEST for a new record, the stored level for an old one, and
\* OWNER for the configured owner
LevelOwnerOnlyWhenNew(old, uuid) ==
    IF ~old.exists
    THEN IF uuid = OwnerUuid THEN OWNER ELSE GUEST
    ELSE old.access_level

LevelAfterFetch(old, uuid) ==
    IF uuid = OwnerUuid THEN OWNER
    ELSE IF old.exists THEN old.access_level
    ELSE GUEST

\* the record fetch_or_create commits and returns (manager.py:99-125).  The
\* test `ip not in player.ips` compares a string with IPAddress rows, so it
\* is true for every ip and a row is appended on every login.
FetchedPlayer(table, uuid, name, ip, protocol) ==
    LET old == table[uuid]
        unique == AffixName(table, name)
    IN IF old.exists
       THEN [old EXCEPT !.name = unique,
                        !.ips = Append(@, ip),
                        !.ip = ip,
                        !.protocol = protocol,
                        !.access_level = LevelAfterFetch(old, uuid)]
       ELSE [exists |-> TRUE, name |-> unique,
             access_level |-> LevelAfterFetch(old, uuid),
             logged_in |-> FALSE, protocol |-> protocol, ip |-> ip,
             ips |-> <<ip>>]

\* the players table after fetch_or_create: both raises (lines 95-98) come
\* before the first write, so only an admitted call commits a record
CommittedBeforeBanCheck(table, result, uuid, name, ip, protocol) ==
    IF result \in {"ok", "Banned"}
    THEN [table EXCEPT ![uuid] = FetchedPlayer(table, uuid, name, ip, protocol)]
    ELSE table

Committed(table, result, uuid, name, ip, protocol) ==
    IF result = "ok"
    THEN [table EXCEPT ![uuid] = FetchedPlayer(table, uuid, name, ip, protocol)]
    ELSE table

\* the successful calls of fetch_or_create so far: one row of ips each
Logins ==
    Cardinality({ui \in (DOMAIN players) \X (1..(MaxLogins + MaxNamed)) :
                    ui[2] <= Len(players[ui[1]].ips)})

\* fetch_or_create(uuid, name, ip, protocol)
FetchOrCreate(uuid, name, ip, protocol) ==
    LET result == Admission(players, bans, uuid, ip)
    IN /\ fetch_log' = [called |-> TRUE, uuid |-> uuid, name |-> name,
                        ip |-> ip,
                        result |-> result,
                        existed |-> players[uuid].exists,
                        logged_before |-> players[uuid].logged_in,
                        level_before |-> players[uuid].access_level]
       /\ players' = Committed(players, result, uuid, name, ip, protocol)
       /\ admitted' = IF result = "ok" THEN admitted \cup {uuid}
                      ELSE admitted
       /\ UNCHANGED <<bans, dispatch_vars, route_vars, loader_vars, aux_vars>>

\* ban(ip): a row of the bans table; its ip column is unique
Ban(ip) ==
    /\ ip \notin bans
    /\ bans' = bans \cup {ip}
    /\ fetch_log' = NoFetch
    /\ UNCHANGED <<players, admitted, dispatch_vars, route_vars, loader_vars, aux_vars>>

\* the connection of an admitted player completes its login: the record is
\* marked logged in
LoginComplete(uuid) ==
    /\ uuid \in admitted
    /\ players' = [players EXCEPT ![uuid].logged_in = TRUE]
    /\ admitted' = admitted \ {uuid}
    /\ fetch_log' = NoFetch
    /\ UNCHANGED <<bans, dispatch_vars, route_vars, loader_vars, aux_vars>>

\* the connection of a player is lost: the record is marked logged out
Disconnect(uuid) ==
    /\ players[uuid].exists
    /\ players[uuid].logged_in \/ uuid \in admitted
    /\ players' = [players EXCEPT ![uuid].logged_in = FALSE]
    /\ admitted' = admitted \ {uuid}
    /\ fetch_log' = NoFetch
    /\ UNCHANGED <<bans, dispatch_vars, route_vars, loader_vars, aux_vars>>

\* PlayerManager.__init__ on a new store (manager.py:86-92)
InitPlayers ==
    /\ packets = EmptyIndex
    /\ plugin_protocol = [p \in Plugins |-> None]
    /\ do_call = NoCall
    /\ InitRouteVars
    /\ InitLoaderVars
    /\ InitAuxVars
    /\ InitPlayerVars

NextPlayers ==
    \/ \E uuid \in Uuids, name \in RequestedNames, protocol \in Conns :
          /\ Admission(players, bans, uuid, PeerIp(protocol)) = "ok"
                => Logins < MaxLogins
          /\ FetchOrCreate(uuid, name, PeerIp(protocol), protocol)
    \/ \E ip \in Ips : Ban(ip)
    \/ \E uuid \in Uuids : LoginComplete(uuid)
    \/ \E uuid \in Uuids : Disconnect(uuid)

SpecPlayers == InitPlayers /\ [][NextPlayers]_vars

\* the directory under logins only, each over a connection of the same peer
\* and kept by fetch_or_create's default for protocol: the names that players
\* come to hold while others are online
InitNames ==
    /\ packets = EmptyIndex
    /\ plugin_protocol = [p \in Plugins |-> None]
    /\ do_call = NoCall
    /\ InitRouteVars
    /\ InitLoaderVars
    /\ InitAuxVars
    /\ players = [u \in NamedUuids |-> NoPlayer]
    /\ bans = {}
    /\ admitted = {}
    /\ fetch_log = NoFetch

NextNames ==
    \/ \E uuid \in NamedUuids, name \in RequestedNames :
          /\ Admission(players, bans, uuid, PeerIp(1)) = "ok"
                => Logins < MaxNamed
          /\ FetchOrCreate(uuid, name, PeerIp(1), None)
    \/ \E uuid \in NamedUuids : LoginComplete(uuid)
    \/ \E uuid \in NamedUuids : Disconnect(uuid)

SpecNames == InitNames /\ [][NextNames]_vars

\* PlayerManager.__init__ on the store of an earlier run, which ran under any
\* configuration: some players are on record, of any access level, none
\* logged in (manager.py:91-92)
InitStored ==
    /\ packets = EmptyIndex
    /\ plugin_protocol = [p \in Plugins |-> None]
    /\ do_call = NoCall
    /\ InitRouteVars
    /\ InitLoaderVars
    /\ InitAuxVars
    /\ \E stored \in SUBSET Uuids, level \in UserLevels :
          players = [u \in Uuids |->
                        IF u \in stored THEN StoredPlayer(level)
                        ELSE NoPlayer]
    /\ bans = {}
    /\ admitted = {}
    /\ fetch_log = NoFetch

\* the first login attempt on such a store
NextStored ==
    /\ ~fetch_log.called
    /\ \E uuid \in Uuids, name \in RequestedNames, protocol \in Conns :
          FetchOrCreate(uuid, name, PeerIp(protocol), protocol)

SpecStored == InitStored /\ [][NextStored]_vars

\* ---------------------------------------------------------- claims C1..C3
\* the hooks registered for the call's packet type and timing
Registered == Range(HooksFor(packets, do_call.id, do_call.when))

\* C1: do with a non-null connection returns False whenever a hook registered
\* for the packet's type and the timing returns False, and True when every
\* registered hook returns True or None (also when none is registered).
C1_DoVetoOrPass ==
    (do_call.called /\ do_call.protocol # None) =>
        /\ (\E p \in Registered : do_call.res[p] = "False")
               => do_call.ret = FALSE
        /\ (\A p \in Registered : do_call.res[p] \in {"True", "None"})
               => do_call.ret = TRUE

\* a dispatch of two hooks where the second vetoes after the first passed
C1_Witness ==
    /\ do_call.called /\ do_call.protocol # None
    /\ Len(do_call.invoked) = 2
    /\ do_call.res[do_call.invoked[1]] = "None"
    /\ do_call.res[do_call.invoked[2]] = "False"
    /\ do_call.ret = FALSE

\* C2: within one call of do, a hook that returned False is the last hook
\* called in that dispatch, and do returns False.
C2_FalseShortCircuits ==
    do_call.called =>
        \A i \in 1..Len(do_call.invoked) :
            do_call.res[do_call.invoked[i]] = "False"
                => (i = Len(do_call.invoked) /\ do_call.ret = FALSE)

\* a veto by the first of two registered hooks: the second one is not called
C2_Witness ==
    /\ do_call.called
    /\ Cardinality(Registered) = 2
    /\ Len(do_call.invoked) = 1
    /\ do_call.res[do_call.invoked[1]] = "False"
    /\ do_call.ret = FALSE

\* the position of the first hook returning False, or the number of hooks
FirstFalse(hooks, res) ==
    IF \E i \in 1..Len(hooks) : res[hooks[i]] = "False"
    THEN CHOOSE i \in 1..Len(hooks) :
             /\ res[hooks[i]] = "False"
             /\ \A j \in 1..(i - 1) : res[hooks[j]] # "False"
    ELSE Len(hooks)

\* C3: a hook that raises does not make do raise; the hooks after it are
\* still called, up to the first that returns False; and do's result is that
\* of the hooks that did not raise (a raise is no veto).
C3_RaiseIsIsolated ==
    (do_call.called /\ do_call.protocol # None) =>
        LET hooks == HooksFor(packets, do_call.id, do_call.when)
        IN /\ do_call.propagated = FALSE
           /\ do_call.invoked = SubSeq(hooks, 1, FirstFalse(hooks, do_call.res))
           /\ do_call.ret =
                  (\A p \in Registered :
                      do_call.res[p] # "Raise"
                          => do_call.res[p] \in {"True", "None"})
           /\ Range(do_call.logged) =
                  {p \in Range(do_call.invoked) : do_call.res[p] = "Raise"}

\* the first of two hooks raises, the second is called and passes: do is True
C3_Witness ==
    /\ do_call.called /\ do_call.protocol # None
    /\ Len(do_call.invoked) = 2
    /\ do_call.res[do_call.invoked[1]] = "Raise"
    /\ do_call.res[do_call.invoked[2]] = "True"
    /\ do_call.ret = TRUE
    /\ do_call.propagated = FALSE

\* ---------------------------------------------------------- claims C4, C5
\* the packets route has been called for
Routed == {ck \in Conns \X (1..MaxPackets) :
              /\ ck[2] <= Len(pkts[ck[1]])
              /\ pkts[ck[1]][ck[2]].before # "none"}

Pending(c, k) == \E d \in delayed : d.c = c /\ d.k = k

\* C4 as claimed: the handler is called iff the before-dispatch returned
\* true, and exactly then one after-dispatch is scheduled; after a veto the
\* handler is not called and no after-dispatch is scheduled or run.
C4_AsClaimed ==
    \A ck \in Routed :
        LET pk == pkts[ck[1]][ck[2]]
        IN /\ (pk.handler # "none") <=> (pk.before = "true")
           /\ (pk.before = "true") <=> (pk.scheduled = 1)
           /\ pk.before = "false" =>
                  (pk.scheduled = 0 /\ pk.after_runs = 0
                   /\ ~Pending(ck[1], ck[2]))

\* C4, amended: the handler is called iff the before-dispatch returned true;
\* one after-dispatch is scheduled exactly when the handler was called and
\* returned without raising; after a veto, or when the handler raised, no
\* after-dispatch is scheduled or run for the packet.
C4_HandlerIffBeforeTrue ==
    \A ck \in Routed :
        LET pk == pkts[ck[1]][ck[2]]
        IN /\ (pk.handler # "none") <=> (pk.before = "true")
           /\ (pk.handler = "ok") <=> (pk.scheduled = 1)
           /\ pk.scheduled \in {0, 1}
           /\ pk.after_runs <= pk.scheduled
           /\ Pending(ck[1], ck[2]) <=> (pk.scheduled = 1 /\ pk.after_runs = 0)
           /\ (pk.before = "false" \/ pk.handler = "raise") =>
                  (pk.scheduled = 0 /\ pk.after_runs = 0
                   /\ ~Pending(ck[1], ck[2]))

\* one connection has had a packet vetoed and another packet handled, whose
\* after-dispatch has run
C4_Witness ==
    \E c \in Conns : \E k1, k2 \in 1..Len(pkts[c]) :
        /\ pkts[c][k1].before = "false" /\ pkts[c][k1].handler = "none"
        /\ pkts[c][k2].before = "true" /\ pkts[c][k2].handler = "ok"
        /\ pkts[c][k2].scheduled = 1 /\ pkts[c][k2].after_runs = 1

\* C5: on every connection the before hooks of a packet have all been called
\* (or one has vetoed) before the packet's handler is called, the after
\* hooks of a packet run only once the packet has been handled, and packets
\* enter the before-dispatch in their order of arrival.
C5_RouteOrdering ==
    /\ last_event.when = "on" /\ last_event.c # None =>
          LET t == last_event.trace
              pk == pkts[last_event.c][last_event.k]
          IN /\ \A i \in 1..Len(t) :
                    t[i].kind = "handle" =>
                        /\ i = Len(t)
                        /\ {t[j].p : j \in 1..(i - 1)}
                               = Range(HooksFor(packets, pk.id, "on"))
                        /\ \A j \in 1..(i - 1) : t[j].kind = "on"
             /\ (pk.handler # "none") <=>
                    (\E i \in 1..Len(t) : t[i].kind = "handle")
    /\ last_event.when = "after" =>
          pkts[last_event.c][last_event.k].handler = "ok"
    /\ \A c \in Conns :
          /\ \A k \in 1..Len(pkts[c]) :
                pkts[c][k].after_runs > 0 => pkts[c][k].handler = "ok"
          /\ entered[c] \o inbox[c] = [i \in 1..Len(pkts[c]) |-> i]

\* the after hooks of a connection's first packet run when its second packet
\* has already been through its before hooks and its handler
C5_Witness ==
    /\ last_event.when = "after" /\ last_event.k = 1
    /\ Len(last_event.trace) = NumPlugins
    /\ entered[last_event.c] = <<1, 2>>
    /\ pkts[last_event.c][2].handler = "ok"
    /\ pkts[last_event.c][1].after_runs = 1

\* ---------------------------------------------------------- claims C6, C7
\* the dependency map of the loader's most recent call: its keys, and for
\* each key the class's declared dependencies
MapKeys == loader_log.keys

RECURSIVE DependsClosure(_, _)
DependsClosure(S, n) ==
    IF n = 0 THEN S
    ELSE DependsClosure(
             S \cup UNION {class_depends[x] : x \in S \cap MapKeys}, n - 1)

\* what x depends on, directly or through other keys of the map
DependsOn(x) ==
    IF x \in MapKeys THEN DependsClosure(class_depends[x], NumPlugins)
    ELSE {}

OnCycle(x) == x \in MapKeys /\ x \in DependsOn(x)

DependsOnCycle(x) == OnCycle(x) \/ \E y \in DependsOn(x) : OnCycle(y)

Position(x) == CHOOSE i \in 1..Len(load_order) : load_order[i] = x

\* C6 as claimed: for an acyclic map whose dependencies are all keys of the
\* map or already active, the load order holds every key exactly once, each
\* after all of its declared dependencies.
C6_AsClaimed ==
    (/\ loader_log.call = "resolve"
     /\ \A x \in MapKeys : ~OnCycle(x)
     /\ \A x \in MapKeys : class_depends[x] \subseteq MapKeys \cup loader_log.active)
    => /\ Range(load_order) = MapKeys
       /\ Len(load_order) = Cardinality(MapKeys)
       /\ \A x \in MapKeys : \A d \in class_depends[x] \cap MapKeys :
             Position(d) < Position(x)

\* C7: for a map with a cycle, resolve_dependencies ends, logs the
\* unresolved-or-circular error without raising it, and the load order holds
\* no plugin that is on a cycle or depends on one.
C7_CycleReported ==
    (loader_log.call = "resolve" /\ \E x \in MapKeys : OnCycle(x))
    => /\ loader_log.critical
       /\ ~loader_log.propagated
       /\ plugins_waiting_to_load = Range(load_order)
       /\ \A x \in Range(load_order) : x \in MapKeys /\ ~DependsOnCycle(x)

\* a map with a cycle and a plugin that is free of it: the free one is loaded
C7_Witness ==
    /\ loader_log.call = "resolve"
    /\ \E x \in MapKeys : OnCycle(x)
    /\ \E x \in MapKeys : ~OnCycle(x) /\ DependsOnCycle(x)
    /\ loader_log.critical

\* --------------------------------------------------------- claims C8..C10
\* a step of fetch_or_create for uuid u (every other operation clears
\* fetch_log)
FetchStep(u) == fetch_log'.called /\ fetch_log'.uuid = u

\* C8: fetch_or_create called with a uuid whose record is marked logged in
\* raises AlreadyLoggedIn, whatever name and ip are presented, and admits
\* nothing: the directory and the set of admitted sessions are as before.
C8_LoggedInIsRejected ==
    [][\A u \in Uuids :
          (FetchStep(u) /\ players[u].exists /\ players[u].logged_in)
              => /\ fetch_log'.result = "AlreadyLoggedIn"
                 /\ players' = players
                 /\ admitted' = admitted]_vars

\* a logged-in player was refused from an address other than the one it is
\* logged in from
C8_Witness ==
    /\ fetch_log.called
    /\ fetch_log.logged_before
    /\ fetch_log.result = "AlreadyLoggedIn"
    /\ players[fetch_log.uuid].logged_in
    /\ players[fetch_log.uuid].ip # fetch_log.ip

\* C9 as stated: fetch_or_create called with an ip of the ban table raises
\* Banned regardless of the uuid and name presented.
C9_AsClaimed ==
    (fetch_log.called /\ fetch_log.ip \in bans)
        => fetch_log.result = "Banned"

\* C9 as the code has it: fetch_or_create called with an ip of the ban table
\* never admits the caller; it raises AlreadyLoggedIn when the uuid presented
\* is marked logged in, and Banned for every other uuid and every name.
C9_BannedIsRejected ==
    (fetch_log.called /\ fetch_log.ip \in bans)
        => /\ fetch_log.result \in {"Banned", "AlreadyLoggedIn"}
           /\ fetch_log.result = "AlreadyLoggedIn" <=> fetch_log.logged_before
           /\ fetch_log.result = "Banned" <=> ~fetch_log.logged_before

\* a player on record, not logged in, was refused as Banned
C9_Witness ==
    /\ fetch_log.called
    /\ fetch_log.ip \in bans
    /\ fetch_log.existed
    /\ ~fetch_log.logged_before
    /\ fetch_log.result = "Banned"

\* C10: a successful fetch_or_create returns a record at level OWNER when the
\* uuid is the configured owner_uuid, new or on record at any level; for any
\* other uuid the record is at GUEST when new and at its earlier level when
\* it was on record.
C10_OwnerLevel ==
    (fetch_log.called /\ fetch_log.result = "ok")
        => LET level == players[fetch_log.uuid].access_level
           IN /\ fetch_log.uuid = OwnerUuid => level = OWNER
              /\ (fetch_log.uuid # OwnerUuid /\ ~fetch_log.existed)
                    => level = GUEST
              /\ (fetch_log.uuid # OwnerUuid /\ fetch_log.existed)
                    => level = fetch_log.level_before

\* the owner was on record as a guest and is returned as owner
C10_Witness ==
    /\ fetch_log.called
    /\ fetch_log.result = "ok"
    /\ fetch_log.uuid = OwnerUuid
    /\ fetch_log.existed
    /\ fetch_log.level_before = GUEST
    /\ players[OwnerUuid].access_level = OWNER

\* -------------------------------------------------------------- claim C11
\* some player that is logged in holds name n with k more '_' characters,
\* compared in lower case
NameTaken(n, k) ==
    \E v \in NamedUuids :
        /\ players[v].exists /\ players[v].logged_in
        /\ players[v].name.us = n.us + k
        /\ \/ players[v].name.stem = n.stem
           \/ {players[v].name.stem, n.stem} = {"Bob", "bob"}

\* C11: a successful fetch_or_create for requested name N returns a record
\* named N followed by the smallest number k >= 0 of '_' characters such that
\* no player logged in at the call holds that name, compared without regard
\* to case.
C11_SmallestSuffix ==
    [][\A u \in NamedUuids :
          (FetchStep(u) /\ fetch_log'.result = "ok")
              => LET n == fetch_log'.name
                     got == players'[u].name
                 IN /\ got.stem = n.stem
                    /\ got.us >= n.us
                    /\ ~NameTaken(n, got.us - n.us)
                    /\ \A k \in 0..(got.us - n.us - 1) : NameTaken(n, k)]_vars

\* with 'Bob' and 'Bob_' online, under either case, a third identity that
\* asked for 'Bob' is returned as 'Bob__'
C11_Witness ==
    /\ fetch_log.called
    /\ fetch_log.result = "ok"
    /\ fetch_log.name.us = 0
    /\ players[fetch_log.uuid].name.us = 2
    /\ \E v, w \in NamedUuids \ {fetch_log.uuid} :
          /\ players[v].logged_in /\ players[v].name.us = 0
          /\ players[w].logged_in /\ players[w].name.us = 1
          /\ players[v].name.stem # fetch_log.name.stem

\* ------------------------------------------------- permissions, claim C12
\* the specifications of the plugins start from the state of the others at
\* start-up
InitRest ==
    /\ packets = EmptyIndex
    /\ plugin_protocol = [p \in Plugins |-> None]
    /\ do_call = NoCall
    /\ InitRouteVars
    /\ InitLoaderVars
    /\ InitPlayerVars

rest_vars == <<dispatch_vars, route_vars, loader_vars, player_vars>>

\* the handler permissions(level) returns for func, called by a player of
\* access level actor_level; body is what func does when it is called.  The
\* result tells whether func ran, the chat messages the wrapper sent to the
\* actor, and what the call returned ("Raise": func's exception left it).
PermittedStrictlyAbove(level, actor_level, body) ==
    IF actor_level > level
    THEN [ran |-> TRUE, messages |-> <<>>, ret |-> body]
    ELSE [ran |-> FALSE, messages |-> <<"You are not an admin.">>,
          ret |-> "False"]

Permitted(level, actor_level, body) ==
    IF actor_level >= level
    THEN [ran |-> TRUE, messages |-> <<>>, ret |-> body]
    ELSE [ran |-> FALSE, messages |-> <<"You are not an admin.">>,
          ret |-> "False"]

\* a player of some level calls a handler decorated with permissions(level)
CallPermitted(level, actor_level, body) ==
    /\ util_call' = [op |-> "permissions", level |-> level,
                     actor_level |-> actor_level, body |-> body,
                     out |-> Permitted(level, actor_level, body)]
    /\ UNCHANGED <<rest_vars, command_vars, protect_vars, config_vars>>

InitPermissions == InitRest /\ InitAuxVars

NextPermissions ==
    \E level \in UserLevels, actor_level \in UserLevels, body \in Outcomes :
        CallPermitted(level, actor_level, body)

SpecPermissions == InitPermissions /\ [][NextPermissions]_vars

\* C12: a handler wrapped by permissions(L) runs its body exactly when the
\* actor's access level is at least L; below L the body does not run, one
\* "You are not an admin." message is sent to the actor and the call returns
\* False.
C12_PermissionGate ==
    util_call.op = "permissions"
        => /\ util_call.out.ran <=> util_call.actor_level >= util_call.level
           /\ util_call.actor_level < util_call.level
                 => /\ ~util_call.out.ran
                    /\ util_call.out.messages = <<"You are not an admin.">>
                    /\ util_call.out.ret = "False"

\* a registered player called a handler that asks for ADMIN and got the
\* message; and a handler that asks for exactly the actor's level ran
C12_Witness ==
    /\ util_call.op = "permissions"
    /\ \/ /\ util_call.level = ADMIN
          /\ util_call.actor_level = REGISTERED
          /\ Len(util_call.out.messages) = 1
       \/ /\ util_call.level = util_call.actor_level
          /\ util_call.out.ran

\* ------------------------------------- command dispatch, claims C13 and C20

\* what is passed to register as f: two bound methods and a value that is
\* not callable
Handlers == {"h1", "h2"}
NotCallable == "not callable"

\* the longest list of names passed to register
MaxNames == 2
NameLists == UNION {[1..n -> CommandNames] : n \in 1..MaxNames}

\* the for loop of register over names, already in lower case, from the
\* i-th on: the registry it leaves and the exception that left it, if any
RECURSIVE RegisterLoopOverwrites(_, _, _, _)
RegisterLoopOverwrites(table, f, names, i) ==
    IF i > Len(names) THEN [commands |-> table, raised |-> "none"]
    ELSE RegisterLoopOverwrites([table EXCEPT ![names[i]] = f], f, names,
                                i + 1)

RECURSIVE RegisterLoop(_, _, _, _)
RegisterLoop(table, f, names, i) ==
    IF i > Len(names) THEN [commands |-> table, raised |-> "none"]
    ELSE IF table[names[i]] # Unset
    THEN [commands |-> table, raised |-> "KeyError"]
    ELSE RegisterLoop([table EXCEPT ![names[i]] = f], f, names, i + 1)

\* register(f, names); names is a list (a single string behaves as the list
\* of that string)
RegisterResult(table, f, names) ==
    IF f = NotCallable
    THEN [commands |-> table, raised |-> "TypeError"]
    ELSE RegisterLoop(table, f, [i \in 1..Len(names) |-> LowerName(names[i])],
                      1)

Register(f, names) ==
    LET r == RegisterResult(commands, f, names)
    IN /\ commands' = r.commands
       /\ command_log' = [op |-> "register", f |-> f, names |-> names,
                          before |-> commands, raised |-> r.raised]
       /\ UNCHANGED <<instance_protocol, rest_vars, util_vars, protect_vars,
                      config_vars>>

\* unregister(name)
Unregister(name) ==
    /\ commands' = [commands EXCEPT ![name] = Unset]
    /\ command_log' = [op |-> "unregister", name |-> name,
                       before |-> commands]
    /\ UNCHANGED <<instance_protocol, rest_vars, util_vars, protect_vars,
                   config_vars>>

\* a chat message: whether its first character is the command prefix, and
\* the whitespace-separated words after the first character
ChatMessages ==
    [prefixed : BOOLEAN, words : {<<>>} \cup {<<n>> : n \in CommandNames}]

\* what the registered handler does when it is called
CommandOutcomes == {"returns", "raises"}

\* on_chat_sent(data): what the hook does, in the terms of Outcomes, whether
\* the handler was called and whether the "Couldn't find" reply was sent.
\* split_command[0] is outside the try block; `return False` is inside it.
OnChatSentResult(table, message, handler) ==
    IF ~message.prefixed
    THEN [ret |-> "None", called |-> FALSE, replied |-> FALSE]
    ELSE IF message.words = <<>>
    THEN [ret |-> "Raise", called |-> FALSE, replied |-> FALSE]
    ELSE IF table[message.words[1]] # Unset
    THEN [ret |-> IF handler = "raises" THEN "None" ELSE "False",
          called |-> TRUE, replied |-> FALSE]
    ELSE [ret |-> "False", called |-> FALSE, replied |-> TRUE]

\* PluginManager.do for the chat-sent packet with the dispatcher as its only
\* hook: a true result lets the message be relayed
Relayed(ret) ==
    DoLoop(<<1>>, [p \in {1} |-> ret], 1, <<>>, <<>>, <<>>).ret

OnChatSent(message, handler) ==
    LET r == OnChatSentResult(commands, message, handler)
    IN /\ command_log' = [op |-> "chat", message |-> message,
                          handler |-> handler, out |-> r,
                          relayed |-> Relayed(r.ret)]
       /\ UNCHANGED <<commands, instance_protocol, rest_vars, util_vars,
                      protect_vars, config_vars>>

InitCommands == InitRest /\ InitAuxVars

NextCommands ==
    \/ \E f \in Handlers \cup {NotCallable}, names \in NameLists :
          Register(f, names)
    \/ \E name \in CommandNames : Unregister(name)
    \/ \E message \in ChatMessages, handler \in CommandOutcomes :
          OnChatSent(message, handler)

SpecCommands == InitCommands /\ [][NextCommands]_vars

\* C13 as claimed: for every chat message that begins with the command
\* prefix on_chat_sent returns False and the message is not relayed, whether
\* the command is registered, is not registered, or its handler raises.
C13_AsClaimed ==
    (command_log.op = "chat" /\ command_log.message.prefixed)
        => /\ command_log.out.ret = "False"
           /\ ~command_log.relayed

\* C20: register raises a type error for a handler that is not callable and
\* a duplicate-name error when a name, in lower case, is already registered;
\* it stores names in lower case only; no call of register or unregister
\* replaces the handler of a registered name by another one: a name gets a
\* handler only while it has none.
C20_NoOverwrite ==
    /\ commands["WHO"] = Unset
    /\ command_log.op = "register" =>
          LET b == command_log.before
              f == command_log.f
              names == command_log.names
              low == {LowerName(names[i]) : i \in 1..Len(names)}
              dup == \E i \in 1..Len(names) :
                        \/ b[LowerName(names[i])] # Unset
                        \/ \E j \in 1..(i - 1) :
                              LowerName(names[j]) = LowerName(names[i])
          IN /\ f = NotCallable
                   => command_log.raised = "TypeError" /\ commands = b
             /\ f # NotCallable
                   => (command_log.raised = "KeyError" <=> dup)
             /\ (f # NotCallable /\ ~dup)
                   => /\ command_log.raised = "none"
                      /\ \A n \in low : commands[n] = f
             /\ \A n \in CommandNames :
                   /\ b[n] # Unset => commands[n] = b[n]
                   /\ (b[n] = Unset /\ commands[n] # Unset)
                         => commands[n] = f /\ n \in low
    /\ command_log.op = "unregister" =>
          \A n \in CommandNames :
              commands[n] = IF n = command_log.name THEN Unset
                            ELSE command_log.before[n]

\* register was refused for a name that is registered under another case,
\* after it had stored an earlier name of its list, and the registered
\* handler stayed
C20_Witness ==
    /\ command_log.op = "register"
    /\ command_log.raised = "KeyError"
    /\ command_log.names = <<"ban", "WHO">>
    /\ command_log.before["who"] = "h1"
    /\ command_log.before["ban"] = Unset
    /\ command_log.f = "h2"
    /\ commands["who"] = "h1"
    /\ commands["ban"] = "h2"

\* --------------------------------------------- planet protection, claim C14
\* what the player record of the connection tells the plugin about the actor
ActorLevels == {REGISTERED, MODERATOR, ADMIN}
Actors ==
    [planet : Planets, on_ship : BOOLEAN, access_level : ActorLevels,
     org_name : ActorNames]

\* the argument of /protect and /unprotect: nothing, the name of a player who
\* is online, or a name get_by_name finds nobody for
Targets == ActorNames \cup {"", "nobody"}

\* self.config.plugin_config.update({...}); self.config.save() (lines
\* 237-246): __getattr__ returns the namespace of the calling class if the
\* document has one, and a new empty mapping otherwise (config.py:69-74),
\* which update fills and nobody keeps.  io tells whether the file can be
\* written; save re-raises when it cannot.
Saved(cfg, settings, io) ==
    LET memory == IF "planet_protect" \in cfg.memory.ns_present
                  THEN [cfg.memory EXCEPT !.ns = settings]
                  ELSE cfg.memory
    IN [cfg EXCEPT !.memory = memory,
                   !.disk = IF io = "ok" THEN memory ELSE @]

\* self.player_planets[planet] = [...] + [first_name] (lines 121-126, 136-141)
AddAllowed(s, planet, first_name) ==
    [s EXCEPT !.keys = @ \cup {planet},
              !.allow[planet] = IF planet \in s.keys THEN @ \cup {first_name}
                                ELSE {first_name}]

\* the body of protect(data) for the actor and the argument given: the
\* settings it leaves and whether it reached self.save()
ProtectBody(s, actor, target) ==
    LET first_name == IF target = "" THEN actor.org_name ELSE target
        planet == actor.planet
    IN IF target = "nobody" THEN [settings |-> s, saved |-> FALSE]
       ELSE IF planet \in s.keys /\ first_name \in s.allow[planet]
       THEN [settings |-> s, saved |-> FALSE]
       ELSE IF actor.on_ship THEN [settings |-> s, saved |-> FALSE]
       ELSE IF planet \notin s.protected_planets
       THEN [settings |->
                 AddAllowed([s EXCEPT !.protected_planets = @ \cup {planet}],
                            planet, first_name),
             saved |-> TRUE]
       ELSE [settings |-> AddAllowed(s, planet, first_name), saved |-> TRUE]

\* the body of unprotect(data); "KeyError" leaves it before any change
UnprotectBody(s, actor, target) ==
    LET planet == actor.planet
    IN IF actor.on_ship THEN [settings |-> s, saved |-> FALSE]
       ELSE IF target = ""
       THEN IF planet \in s.protected_planets
            THEN IF planet \notin s.keys
                 THEN [settings |-> s, saved |-> FALSE]
                 ELSE [settings |->
                           [s EXCEPT !.protected_planets = @ \ {planet},
                                     !.keys = @ \ {planet},
                                     !.allow[planet] = {}],
                       saved |-> TRUE]
            ELSE [settings |-> s, saved |-> TRUE]
       ELSE IF planet \notin s.keys THEN [settings |-> s, saved |-> FALSE]
       ELSE [settings |-> [s EXCEPT !.allow[planet] = @ \ {target}],
             saved |-> TRUE]

\* a command of the plugin, behind its permissions gate
Command(name, level, body, actor) ==
    LET gate == Permitted(level, actor.access_level, "None")
        r == IF gate.ran THEN body
             ELSE [settings |-> protect, saved |-> FALSE]
    IN /\ protect' = r.settings
       /\ config' = IF r.saved THEN Saved(config, r.settings, "ok")
                    ELSE config
       /\ protect_log' = [op |-> name, ran |-> gate.ran, saved |-> r.saved]
       /\ UNCHANGED <<config_log, rest_vars, util_vars, command_vars>>

Protect(actor, target) ==
    Command("protect", MODERATOR, ProtectBody(protect, actor, target), actor)

Unprotect(actor, target) ==
    Command("unprotect", MODERATOR, UnprotectBody(protect, actor, target),
            actor)

\* the packets the plugin has a hook for
TileKinds ==
    {"modify_tile_list", "damage_tile_group", "collect_liquid",
     "connect_wire", "disconnect_all_wires"}
HookKinds == TileKinds \cup {"entity_interact_result", "entity_create"}

\* the longest list of entities of an entity-create packet
MaxEntities == 2

\* an entity of an entity-create packet: something that is no projectile, or
\* a projectile and its payload
EntityKinds == {"object"} \cup Payloads
EntityLists == UNION {[1..n -> EntityKinds] : n \in 0..MaxEntities}
InteractionTypes == {"OPEN_CONTAINER", "OTHER"}

\* what a packet of the kind carries
Details(kind) ==
    IF kind = "entity_create" THEN EntityLists
    ELSE IF kind = "entity_interact_result" THEN InteractionTypes
    ELSE {"none"}

\* the for loop of on_entity_create over entities.entity (lines 261-282)
RECURSIVE EntityLoop(_, _, _, _)
EntityLoop(s, block_all, entities, i) ==
    IF i > Len(entities) THEN "None"
    ELSE IF entities[i] # "object" /\ block_all THEN "False"
    ELSE IF entities[i] # "object" /\ entities[i] \in s.blacklist THEN "False"
    ELSE EntityLoop(s, block_all, entities, i + 1)

\* what is left of a hook once the actor is found bound by the protection;
\* self.block_all is False from activate on (line 43)
Unlisted(s, kind, detail) ==
    IF kind = "entity_create" THEN EntityLoop(s, FALSE, detail, 1)
    ELSE IF kind = "entity_interact_result"
    THEN IF detail = "OPEN_CONTAINER" THEN "False" ELSE "None"
    ELSE "False"

\* on_<kind>(data) for the actor of the connection, in the terms of Outcomes
HookAdminsToo(s, actor, kind, detail) ==
    IF actor.planet \in s.protected_planets /\ actor.access_level <= ADMIN
    THEN IF actor.planet \notin s.keys THEN "Raise"
         ELSE IF actor.org_name \in s.allow[actor.planet] THEN "True"
         ELSE Unlisted(s, kind, detail)
    ELSE "None"

Hook(s, actor, kind, detail) ==
    IF actor.planet \in s.protected_planets /\ actor.access_level < ADMIN
    THEN IF actor.planet \notin s.keys THEN "Raise"
         ELSE IF actor.org_name \in s.allow[actor.planet] THEN "True"
         ELSE Unlisted(s, kind, detail)
    ELSE "None"

\* the gated actions: the five tile and wire packets, the opening of a
\* container, and an entity-create packet with a blacklisted projectile
GatedAction(s, kind, detail) ==
    \/ kind \in TileKinds
    \/ kind = "entity_interact_result" /\ detail = "OPEN_CONTAINER"
    \/ /\ kind = "entity_create"
       /\ \E i \in 1..Len(detail) : detail[i] \in s.blacklist

\* a packet of one of the kinds passes the plugin's hook
OnPacket(actor, kind, detail) ==
    /\ protect_log' = [op |-> "hook", planet |-> actor.planet,
                       access_level |-> actor.access_level,
                       org_name |-> actor.org_name, kind |-> kind,
                       gated |-> GatedAction(protect, kind, detail),
                       ret |-> Hook(protect, actor, kind, detail),
                       relayed |->
                           Relayed(Hook(protect, actor, kind, detail))]
    /\ UNCHANGED <<protect, rest_vars, util_vars, command_vars, config_vars>>

\* activate() on a configuration that names a blacklist and no planets yet
InitProtect ==
    /\ InitRest
    /\ InitUtilVars
    /\ InitCommandVars
    /\ \E bl \in {{"water"}}, present \in BOOLEAN :
          /\ protect = [NoSettings EXCEPT !.blacklist = bl]
          /\ LET doc == [top |-> [k \in TopKeys |-> 0],
                         ns_present |-> IF present THEN {"planet_protect"}
                                        ELSE {},
                         ns |-> [NoSettings EXCEPT !.blacklist = bl]]
             IN config = [phase |-> "ready", memory |-> doc, disk |-> doc]
    /\ protect_log = [op |-> "none"]
    /\ config_log = [op |-> "none"]

NextProtect ==
    \/ \E actor \in Actors, target \in Targets : Protect(actor, target)
    \/ \E actor \in Actors, target \in Targets : Unprotect(actor, target)
    \/ \E actor \in {a \in Actors : ~a.on_ship}, kind \in HookKinds :
          \E detail \in Details(kind) : OnPacket(actor, kind, detail)

SpecProtect == InitProtect /\ [][NextProtect]_vars

SettingValues == {0, 1, 2}
SomeSettings ==
    {NoSettings,
     [NoSettings EXCEPT !.protected_planets = {"P"}, !.keys = {"P"},
                        !.allow["P"] = {"X"}],
     [NoSettings EXCEPT !.blacklist = {"water"}]}

\* the documents of a store that is ready: the top-level settings, and the
\* namespace of the planet protection plugin under "plugin_config" if any
Documents ==
    [top : {[k \in TopKeys |-> 0]}, ns_present : SUBSET {"planet_protect"},
     ns : {NoSettings}]

\* save(): the file takes the in-memory document, or io.open raises
SaveConfig(cfg, io) == [cfg EXCEPT !.disk = IF io = "ok" THEN cfg.memory ELSE @]

\* __setattr__(key, value) for a key that is neither "config" nor
\* "plugin_config": self.config[key] = value; self.save()
SetAttr(key, value, io) ==
    /\ config.phase = "ready"
    /\ config' = SaveConfig([config EXCEPT !.memory.top[key] = value], io)
    /\ config_log' = [op |-> "setattr", key |-> key, value |-> value,
                      returned |-> (io = "ok")]
    /\ UNCHANGED <<rest_vars, util_vars, command_vars, protect_vars>>

\* __setattr__("plugin_config", value) called from the plugin:
\* self.config["plugin_config"][caller] = value; self.save()
SetPluginConfig(value, io) ==
    /\ config.phase = "ready"
    /\ config' = SaveConfig(
           [config EXCEPT !.memory.ns_present = @ \cup {"planet_protect"},
                          !.memory.ns = value], io)
    /\ config_log' = [op |-> "set_plugin_config", value |-> value,
                      returned |-> (io = "ok")]
    /\ UNCHANGED <<rest_vars, util_vars, command_vars, protect_vars>>

\* PlanetProtectPlugin.save() with the settings the plugin holds
PluginSave(settings, io) ==
    /\ config.phase = "ready"
    /\ config' = Saved(config, settings, io)
    /\ config_log' = [op |-> "plugin_save", value |-> settings,
                      returned |-> (io = "ok")]
    /\ UNCHANGED <<rest_vars, util_vars, command_vars, protect_vars>>

InitConfig ==
    /\ InitRest
    /\ InitUtilVars
    /\ InitCommandVars
    /\ InitProtectVars
    /\ \E doc \in Documents :
          config = [phase |-> "ready", memory |-> doc, disk |-> doc]
    /\ config_log = [op |-> "none"]

NextConfig ==
    \/ \E key \in TopKeys, value \in SettingValues, io \in {"ok", "fails"} :
          SetAttr(key, value, io)
    \/ \E value \in SomeSettings, io \in {"ok", "fails"} :
          SetPluginConfig(value, io)
    \/ \E settings \in SomeSettings, io \in {"ok", "fails"} :
          PluginSave(settings, io)

SpecConfig == InitConfig /\ [][NextConfig]_vars

\* the setting an operation wrote is in the document on disk
Persisted ==
    IF config_log.op = "setattr"
    THEN config.disk.top[config_log.key] = config_log.value
    ELSE /\ "planet_protect" \in config.disk.ns_present
         /\ config.disk.ns = config_log.value

\* C18: once a mutating operation of the configuration store has returned,
\* the document on disk equals the in-memory document and holds the setting
\* the operation wrote: no mutation of a setting is left unpersisted.
C18_AsClaimed ==
    (config_log.op # "none" /\ config_log.returned) =>
        config.disk = config.memory /\ Persisted

\* ------------------------------------- utility_functions.py, claim C16
\* a JSON value is a scalar or a mapping; a mapping is a function from the
\* keys it has to values
Scalar(n) == [kind |-> "scalar", val |-> n]
Mapping(f) == [kind |-> "map", val |-> f]
EmptyMapping == Mapping([k \in {} |-> Scalar(0)])
Raised(e) == [kind |-> "raised", val |-> e]

MergeKeys == {"a", "b"}
NestedKeys == {"c", "d"}
Scalars == {1, 2, 3}

\* the mappings over the keys ks whose values are drawn from vs
MappingsOver(ks, vs) == UNION {[dom -> vs] : dom \in SUBSET ks}

\* mappings nested one level deep
LeafMappings == {Mapping(f) : f \in MappingsOver(NestedKeys,
                                                 {Scalar(n) : n \in Scalars})}
NestedMappings ==
    {Mapping(f) : f \in MappingsOver(MergeKeys,
                        {Scalar(n) : n \in Scalars} \cup LeafMappings)}

\* recursive_dictionary_update(d, u) for a mapping u and the object d that
\* the caller, or d.get(k, {}) of the level above, passes: the loop body
\* needs d.get or d[k] = ..., which a d that is no mapping does not have
RECURSIVE recursive_dictionary_update(_, _)
recursive_dictionary_update(d, u) ==
    IF DOMAIN u.val = {} THEN d
    ELSE IF d.kind # "map" THEN Raised("TypeError")
    ELSE LET r(k) == IF u.val[k].kind = "map"
                     THEN recursive_dictionary_update(
                              IF k \in DOMAIN d.val THEN d.val[k]
                              ELSE EmptyMapping, u.val[k])
                     ELSE u.val[k]
         IN IF \E k \in DOMAIN u.val : r(k).kind = "raised"
            THEN Raised("TypeError")
            ELSE Mapping([k \in DOMAIN d.val \cup DOMAIN u.val |->
                             IF k \in DOMAIN u.val THEN r(k) ELSE d.val[k]])

\* a base and overrides are chosen, then merged
InitMerge ==
    /\ InitRest
    /\ InitCommandVars
    /\ InitProtectVars
    /\ InitConfigVars
    /\ \E d \in NestedMappings, u \in NestedMappings :
          util_call = [op |-> "merge", d |-> d, u |-> u, done |-> FALSE,
                       r |-> EmptyMapping]

MergeStep ==
    /\ util_call.op = "merge"
    /\ ~util_call.done
    /\ util_call' = [util_call EXCEPT
                        !.done = TRUE,
                        !.r = recursive_dictionary_update(util_call.d,
                                                          util_call.u)]
    /\ UNCHANGED <<rest_vars, command_vars, protect_vars, config_vars>>

NextMerge == MergeStep

SpecMerge == InitMerge /\ [][NextMerge]_vars

\* every leaf scalar of u is the value at its path in r
RECURSIVE LeavesWin(_, _)
LeavesWin(r, u) ==
    \A k \in DOMAIN u.val :
        LET at == IF r.kind = "map" /\ k \in DOMAIN r.val THEN r.val[k]
                  ELSE Raised("KeyError")
        IN IF u.val[k].kind = "map" THEN LeavesWin(at, u.val[k])
           ELSE at = u.val[k]

\* every key of d that u does not have at the same level keeps d's value
RECURSIVE SiblingsKept(_, _, _)
SiblingsKept(r, d, u) ==
    /\ r.kind = "map"
    /\ \A k \in DOMAIN d.val :
          /\ k \in DOMAIN r.val
          /\ IF k \notin DOMAIN u.val THEN r.val[k] = d.val[k]
             ELSE (d.val[k].kind = "map" /\ u.val[k].kind = "map")
                      => SiblingsKept(r.val[k], d.val[k], u.val[k])

\* C16: for any base and overrides, the merge yields a mapping in which every
\* leaf scalar of the overrides is the value at its path, every key of the
\* base that the overrides lack at the same level keeps the base's value, and
\* merging the result with the same overrides again yields the same result.
C16_AsClaimed ==
    (util_call.op = "merge" /\ util_call.done) =>
        /\ LeavesWin(util_call.r, util_call.u)
        /\ SiblingsKept(util_call.r, util_call.d, util_call.u)
        /\ recursive_dictionary_update(util_call.r, util_call.u) = util_call.r

\* ------------------------------------ configuration start-up, claim C19
\* the path the store is constructed with, and another path a document may
\* name under its key "config_path"
ArgPath == 1
OtherPath == 2

\* the JSON documents of the two files: with or without "config_path", with
\* or without "plugin_config", which is a scalar or a mapping
StartupDocs ==
    {Mapping(f) : f \in
        {g \in MappingsOver({"config_path", "plugin_config"},
                            {Scalar(ArgPath), Scalar(OtherPath)}
                                \cup {Mapping(h) : h \in MappingsOver({"c"},
                                         {Scalar(ArgPath), Scalar(OtherPath)})}) :
            "config_path" \in DOMAIN g => g["config_path"].kind = "scalar"}}

\* a file: missing, not JSON, or a document
NoFile == [state |-> "missing", doc |-> EmptyMapping]
Files ==
    {NoFile, [state |-> "invalid", doc |-> EmptyMapping]}
        \cup {[state |-> "ok", doc |-> d] : d \in StartupDocs}

\* whether each write of a file succeeds: the save of line 36, the file of
\* line 40, the saves of lines 52 and 53
WriteOutcomes ==
    [first : {"ok", "fails"}, generated : {"ok", "fails"},
     second : {"ok", "fails"}]

\* lines 38-47: the defaults are written to "config/config.json" and the
\* process exits
Generate(cfg, default, io) ==
    [cfg EXCEPT !.phase = "exited",
                !.generated = IF io.generated = "ok"
                              THEN [state |-> "ok", doc |-> default] ELSE @]

\* the file save() writes: self.config_path is no instance attribute, so
\* __getattr__ looks it up in the document
WriteAt(cfg, path, doc) ==
    IF path = ArgPath THEN [cfg EXCEPT !.live_file = [state |-> "ok", doc |-> doc]]
    ELSE [cfg EXCEPT !.other_file = [state |-> "ok", doc |-> doc]]

\* lines 52-53 once self.config holds merged: self.config_path = config_path
\* stores the path in the document and saves, and save() is called again
StoreLoaded(cfg, merged, io) ==
    LET memory == Mapping([k \in DOMAIN merged.val \cup {"config_path"} |->
                              IF k = "config_path" THEN Scalar(ArgPath)
                              ELSE merged.val[k]])
    IN IF io.second = "fails"
       THEN [cfg EXCEPT !.phase = "raised", !.memory = memory]
       ELSE [WriteAt(cfg, ArgPath, memory) EXCEPT !.phase = "ready",
                                                  !.memory = memory]

\* lines 36-37: self.config = merged goes through __setattr__, which saves
\* before self.config_path is assigned; default is by now the merged object
MergedLoaded(cfg, merged, io) ==
    IF "config_path" \notin DOMAIN merged.val
    THEN [cfg EXCEPT !.phase = "raised", !.memory = merged]
    ELSE IF io.first = "fails"
    THEN Generate([cfg EXCEPT !.memory = merged], merged, io)
    ELSE StoreLoaded(WriteAt(cfg, merged.val["config_path"].val, merged),
                     merged, io)

\* ConfigurationManager.__init__(config_path)
Constructed(cfg, io) ==
    IF cfg.default_file.state # "ok" THEN [cfg EXCEPT !.phase = "exited"]
    ELSE IF cfg.live_file.state = "missing"
    THEN Generate(cfg, cfg.default_file.doc, io)
    ELSE IF cfg.live_file.state = "invalid"
    THEN [cfg EXCEPT !.phase = "exited"]
    ELSE LET merged == recursive_dictionary_update(cfg.default_file.doc,
                                                   cfg.live_file.doc)
         IN IF merged.kind = "raised" THEN [cfg EXCEPT !.phase = "raised"]
            ELSE MergedLoaded(cfg, merged, io)

Construct(io) ==
    /\ config.phase = "start"
    /\ config' = Constructed(config, io)
    /\ config_log' = [op |-> "construct", default_file |-> config.default_file,
                      live_file |-> config.live_file, io |-> io]
    /\ UNCHANGED <<rest_vars, util_vars, command_vars, protect_vars>>

InitStartup ==
    /\ InitRest
    /\ InitUtilVars
    /\ InitCommandVars
    /\ InitProtectVars
    /\ \E default \in Files, live \in Files :
          config = [phase |-> "start", default_file |-> default,
                    live_file |-> live, other_file |-> NoFile,
                    generated |-> NoFile, memory |-> EmptyMapping]
    /\ config_log = [op |-> "none"]

NextStartup == \E io \in WriteOutcomes : Construct(io)

SpecStartup == InitStartup /\ [][NextStartup]_vars

\* C19: with the defaults file missing or invalid the process terminates and
\* the store is not ready; with the defaults loaded and the live file missing
\* the defaults are written out as a fresh file and the process terminates;
\* the store is ready only when both files loaded, and then it holds the deep
\* merge of the live file over the defaults.
C19_AsClaimed ==
    config_log.op = "construct" =>
        /\ config_log.default_file.state # "ok" => config.phase = "exited"
        /\ (config_log.default_file.state = "ok"
              /\ config_log.live_file.state = "missing")
              => /\ config.phase = "exited"
                 /\ config_log.io.generated = "ok"
                       => config.generated
                              = [state |-> "ok",
                                 doc |-> config_log.default_file.doc]
        /\ config.phase = "ready"
              => /\ config_log.default_file.state = "ok"
                 /\ config_log.live_file.state = "ok"
                 /\ config.memory
                       = recursive_dictionary_update(
                             config_log.default_file.doc,
                             config_log.live_file.doc)

\* ------------------------------------- utility_functions.py, claim C17
\* a token is a non-empty string, held as the sequence of its characters
Quotes == {"'", "\""}
Chars == Quotes \cup {"x"}
MaxTokenLen == 3
MaxTokens == 3
Tokens == UNION {[1..n -> Chars] : n \in 1..MaxTokenLen}
TokenLists == UNION {[1..n -> Tokens] : n \in 1..MaxTokens}

\* " ".join(name)
RECURSIVE Join(_)
Join(name) ==
    IF name = <<>> THEN <<>>
    ELSE IF Len(name) = 1 THEN name[1]
    ELSE name[1] \o <<" ">> \o Join(Tail(name))

\* s[:-1]
Front(s) == SubSeq(s, 1, Len(s) - 1)

NameFound(name, none, rest) ==
    [kind |-> "ok", name |-> name, none |-> none, rest |-> rest]
ValueError == [kind |-> "ValueError", name |-> <<>>, none |-> TRUE, rest |-> <<>>]

\* the for loop of extract_name over l[1:]; i is the place in l of the token
\* looked at (idx + 2 in the code's count)
RECURSIVE ExtractLoop(_, _, _, _)
ExtractLoop(l, name, terminator, i) ==
    IF i > Len(l) THEN ValueError
    ELSE IF l[i][Len(l[i])] = terminator
    THEN IF i # Len(l)
         THEN NameFound(Join(Append(name, Front(l[i]))), FALSE,
                        SubSeq(l, i + 1, Len(l)))
         ELSE NameFound(Join(Append(name, Front(l[i]))), TRUE, <<>>)
    ELSE ExtractLoop(l, Append(name, l[i]), terminator, i + 1)

extract_name(l) ==
    IF l[1][1] \notin Quotes THEN NameFound(l[1], FALSE, Tail(l))
    ELSE ExtractLoop(l, <<Tail(l[1])>>, l[1][1], 2)

InitExtract ==
    /\ InitRest
    /\ InitCommandVars
    /\ InitProtectVars
    /\ InitConfigVars
    /\ \E l \in TokenLists :
          util_call = [op |-> "extract_name", l |-> l, done |-> FALSE,
                       r |-> ValueError]

ExtractStep ==
    /\ util_call.op = "extract_name"
    /\ ~util_call.done
    /\ util_call' = [util_call EXCEPT !.done = TRUE,
                                      !.r = extract_name(util_call.l)]
    /\ UNCHANGED <<rest_vars, command_vars, protect_vars, config_vars>>

NextExtract == ExtractStep

SpecExtract == InitExtract /\ [][NextExtract]_vars

\* the tokens of l that end the quotation its first token opens: a token
\* whose last character is that quote (the first token only if the quote
\* that ends it is not the one that opens it)
Closers(l) ==
    {i \in 1..Len(l) : /\ l[i][Len(l[i])] = l[1][1]
                       /\ i = 1 => Len(l[1]) >= 2}

\* the first of them
FirstCloser(l) == CHOOSE i \in Closers(l) : \A j \in Closers(l) : i <= j

\* C17: if the first token does not start with a quote the result is (first
\* token, remaining tokens); if it does and some token ends with the same
\* quote, the result is the tokens up to the first such token joined by
\* spaces without the two quotes, with the remaining tokens, or with None
\* when none remain; ValueError is raised if and only if the first token
\* opens a quote that no token ends.
C17_AsClaimed ==
    (util_call.op = "extract_name" /\ util_call.done) =>
        LET l == util_call.l
        IN IF l[1][1] \notin Quotes
           THEN util_call.r = NameFound(l[1], FALSE, Tail(l))
           ELSE IF Closers(l) = {} THEN util_call.r.kind = "ValueError"
           ELSE LET j == FirstCloser(l)
                    quoted == Join(SubSeq(l, 1, j))
                IN util_call.r = NameFound(SubSeq(quoted, 2, Len(quoted) - 1),
                                           j = Len(l),
                                           SubSeq(l, j + 1, Len(l)))

\* ------------------------------------- utility_functions.py, claim C15
\* the largest count requested, and the per-frame maximum of the code
MaxCount == 2500
maximum == 1000
Counts == (0 - 2)..MaxCount

\* the capped chunk of the while loop: x = item_count, cut to maximum
Chunk(item_count) == IF item_count > maximum THEN maximum ELSE item_count

\* the count fields of the GIVE_ITEM frames the while loop writes, in order
RECURSIVE GiveItemFramesExact(_)
GiveItemFramesExact(item_count) ==
    IF item_count > 0
    THEN <<Chunk(item_count)>>
             \o GiveItemFramesExact(item_count - Chunk(item_count))
    ELSE <<>>

\* the loop had it taken off the remaining count what it sends
RECURSIVE GiveItemFramesDecrementSent(_)
GiveItemFramesDecrementSent(item_count) ==
    IF item_count > 0
    THEN <<Chunk(item_count) + 1>>
             \o GiveItemFramesDecrementSent(item_count - (Chunk(item_count) + 1))
    ELSE <<>>

RECURSIVE GiveItemFrames(_)
GiveItemFrames(item_count) ==
    IF item_count > 0
    THEN <<Chunk(item_count) + 1>>
             \o GiveItemFrames(item_count - Chunk(item_count))
    ELSE <<>>

InitGive ==
    /\ InitRest
    /\ InitCommandVars
    /\ InitProtectVars
    /\ InitConfigVars
    /\ \E n \in Counts :
          util_call = [op |-> "give_item_to_player", count |-> n,
                       done |-> FALSE, frames |-> <<>>]

\* give_item_to_player(player_protocol, item, count)
GiveItemToPlayer ==
    /\ util_call.op = "give_item_to_player"
    /\ ~util_call.done
    /\ util_call' = [util_call EXCEPT
                        !.done = TRUE,
                        !.frames = GiveItemFrames(util_call.count)]
    /\ UNCHANGED <<rest_vars, command_vars, protect_vars, config_vars>>

NextGive == GiveItemToPlayer

SpecGive == InitGive /\ [][NextGive]_vars

\* the count still to give when frame i is built, if every frame before it
\* took a full chunk
Remaining(n, i) == n - maximum * (i - 1)

RECURSIVE Sum(_)
Sum(s) == IF s = <<>> THEN 0 ELSE Head(s) + Sum(Tail(s))

\* the number of frames: ceil(n / maximum), none for n <= 0
FramesSent ==
    Len(util_call.frames)
        = IF util_call.count > 0
          THEN (util_call.count + maximum - 1) \div maximum ELSE 0

\* C15 as stated: ceil(n/1000) frames are sent, the count field of each is
\* the capped chunk min(remaining, 1000), and the count fields sum to n.
C15_AsClaimed ==
    (util_call.op = "give_item_to_player" /\ util_call.done) =>
        /\ FramesSent
        /\ \A i \in 1..Len(util_call.frames) :
              util_call.frames[i] = Chunk(Remaining(util_call.count, i))
        /\ util_call.count > 0 => Sum(util_call.frames) = util_call.count

\* C15: for n > 0 exactly ceil(n/1000) frames are sent and the count field of
\* each is the capped chunk min(remaining, 1000) plus one, so the count
\* fields sum to n plus the number of frames; for n <= 0 no frame is sent.
C15_ChunkPlusOne ==
    (util_call.op = "give_item_to_player" /\ util_call.done) =>
        /\ FramesSent
        /\ \A i \in 1..Len(util_call.frames) :
              util_call.frames[i] = Chunk(Remaining(util_call.count, i)) + 1
        /\ util_call.count > 0
              => Sum(util_call.frames)
                     = util_call.count + Len(util_call.frames)

\* 2500 items go out as three frames of 1001, 1001 and 501
C15_Witness ==
    /\ util_call.op = "give_item_to_player"
    /\ util_call.done
    /\ util_call.count = 2500
    /\ util_call.frames = <<1001, 1001, 501>>

\* ---------------------------------------------- promote command, claim C21
\* the last word of /promote: one of the four ranks or anything else
Ranks == {"admin", "moderator", "registered", "guest", "other"}

\* what /promote is called with: no words at all, or a name that
\* get_by_name finds a player for or not, followed by a rank
PromoteRequests == [given : BOOLEAN, found : BOOLEAN, rank : Ranks]

\* make_admin, make_mod, make_registered, make_guest: each behind its own
\* permissions gate, the level it sets and the level it asks for
MakeLevel(rank) ==
    IF rank = "admin" THEN ADMIN
    ELSE IF rank = "moderator" THEN MODERATOR
    ELSE IF rank = "registered" THEN REGISTERED
    ELSE GUEST

MakeRequiresAdminForAdmin(rank) ==
    IF rank = "admin" THEN ADMIN
    ELSE IF rank = "moderator" THEN ADMIN
    ELSE IF rank = "registered" THEN MODERATOR
    ELSE OWNER

MakeRequires(rank) ==
    IF rank = "admin" THEN OWNER
    ELSE IF rank = "moderator" THEN ADMIN
    ELSE IF rank = "registered" THEN MODERATOR
    ELSE OWNER

\* make_<rank>(player) called by the actor: the level the target has after
Made(rank, actor_level, old_rank) ==
    IF Permitted(MakeRequires(rank), actor_level, "None").ran
    THEN MakeLevel(rank) ELSE old_rank

\* the body of promote(data): what it answers and the target's level after
PromoteBodyAboveOnly(req, actor_level, old_rank) ==
    IF ~req.given THEN [said |-> "usage", level |-> old_rank]
    ELSE IF ~req.found THEN [said |-> "not found", level |-> old_rank]
    ELSE IF old_rank > actor_level
    THEN [said |-> "cannot change", level |-> old_rank]
    ELSE IF req.rank = "other" THEN [said |-> "no such rank", level |-> old_rank]
    ELSE [said |-> "promoted",
          level |-> Made(req.rank, actor_level, old_rank)]

PromoteBody(req, actor_level, old_rank) ==
    IF ~req.given THEN [said |-> "usage", level |-> old_rank]
    ELSE IF ~req.found THEN [said |-> "not found", level |-> old_rank]
    ELSE IF old_rank >= actor_level
    THEN [said |-> "cannot change", level |-> old_rank]
    ELSE IF req.rank = "other" THEN [said |-> "no such rank", level |-> old_rank]
    ELSE [said |-> "promoted",
          level |-> Made(req.rank, actor_level, old_rank)]

\* promote(data) behind permissions(MODERATOR)
Promote(req, actor_level, old_rank) ==
    LET gate == Permitted(MODERATOR, actor_level, "None")
        r == IF gate.ran THEN PromoteBody(req, actor_level, old_rank)
             ELSE [said |-> "not an admin", level |-> old_rank]
    IN /\ util_call' = [op |-> "promote", req |-> req,
                        actor_level |-> actor_level, old_rank |-> old_rank,
                        said |-> r.said, level |-> r.level]
       /\ UNCHANGED <<rest_vars, command_vars, protect_vars, config_vars>>

InitPromote == InitRest /\ InitAuxVars

NextPromote ==
    \E req \in PromoteRequests, actor_level \in UserLevels,
       old_rank \in UserLevels : Promote(req, actor_level, old_rank)

SpecPromote == InitPromote /\ [][NextPromote]_vars

\* C21: promote never changes the level of a target whose level is greater
\* than or equal to the actor's: it refuses and the target's level is the
\* same after the command as before, whatever the rank asked for.
C21_NoPromotionOfPeers ==
    (/\ util_call.op = "promote"
     /\ util_call.req.given
     /\ util_call.req.found
     /\ util_call.old_rank >= util_call.actor_level)
    => /\ util_call.level = util_call.old_rank
       /\ util_call.said \in {"cannot change", "not an admin"}

\* an admin asks for another admin to be made registered and is refused
C21_Witness ==
    /\ util_call.op = "promote"
    /\ util_call.req = [given |-> TRUE, found |-> TRUE, rank |-> "registered"]
    /\ util_call.actor_level = ADMIN
    /\ util_call.old_rank = ADMIN
    /\ util_call.said = "cannot change"
    /\ util_call.level = ADMIN

\* ------------------------------------------------ loader, claims C22..C26
\* the keys of the map whose dependencies can all be resolved: those that
\* depend on nothing, and those that depend only on such keys
RECURSIVE ResolvableIn(_, _)
ResolvableIn(R, n) ==
    IF n = 0 THEN R
    ELSE ResolvableIn({x \in MapKeys : class_depends[x] \subseteq R}, n - 1)

Resolvable == ResolvableIn({}, NumPlugins)

\* the plugins whose activate() the most recent call ran
Activations == {loader_log.events[i].name : i \in 1..Len(loader_log.events)}

\* C22: when resolve_dependencies meets an unresolved or circular dependency
\* the load order keeps every plugin whose dependencies can all be resolved,
\* load_plugins activates exactly those of them that are not active yet, and
\* the plugins that cannot be resolved are never instantiated or activated.
C22_TruncatedNotEmptied ==
    loader_log.critical =>
        /\ Resolvable \subseteq Range(load_order)
        /\ loader_log.call = "load" =>
              /\ Activations \subseteq Resolvable \ loader_log.active
              /\ ~loader_log.fatal =>
                    /\ Activations = Resolvable \ loader_log.active
                    /\ plugins = Resolvable
              /\ \A x \in MapKeys \ Resolvable :
                    x \notin plugins /\ x \notin Activations

\* a load in which one plugin cannot be resolved and another is activated
C22_Witness ==
    /\ loader_log.call = "load"
    /\ loader_log.critical
    /\ ~loader_log.fatal
    /\ MapKeys \ Resolvable # {}
    /\ Activations # {}
    /\ Activations = Range(load_order)

\* C23: no plugin's activate() runs before every plugin it declares in
\* depends has been instantiated and activated, and when it runs its
\* inter-plugin map holds every plugin it declares in depends.
C23_DependenciesFirst ==
    loader_log.call = "load" =>
        /\ loader_log.raised # "KeyError"
        /\ \A i \in 1..Len(loader_log.events) :
              LET e == loader_log.events[i]
              IN /\ class_depends[e.name] \subseteq e.active
                 /\ class_depends[e.name] \subseteq e.wired
                 /\ e.wired \subseteq e.active

\* a plugin is activated after the plugin it depends on, in the same call
C23_Witness ==
    /\ loader_log.call = "load"
    /\ Len(loader_log.events) = 2
    /\ loader_log.events[2].wired = {loader_log.events[1].name}
    /\ loader_log.events[1].name \notin loader_log.active

\* C25: import_plugin sets the shared references only on classes that are not
\* registered yet, so a step of the loader leaves the inter-plugin map of
\* every plugin that is already active as it was.
C25_AsClaimed ==
    [][\A p \in plugins : plugin_links'[p] = plugin_links[p]]_vars

\* the plugin whose activate() raised in the most recent call
Failed == loader_log.events[Len(loader_log.events)].name

\* C26: when a plugin's activate() raises a fatal plugin error,
\* activate_plugins re-raises it, no plugin later in the order is
\* instantiated or activated, and the failing plugin's hooks are not in the
\* packet-hook index.
C26_FatalAborts ==
    (loader_log.call = "load" /\ loader_log.raised = "FatalPluginError") =>
        /\ loader_log.propagated
        /\ plugins = loader_log.active \cup Activations
        /\ \A i \in 1..Len(load_order) :
              i > Position(Failed) /\ load_order[i] \notin loader_log.active
                  => load_order[i] \notin plugins
        /\ \A id \in PacketIds, w \in Whens : Failed \notin Range(packets[id][w])

\* the first of two new plugins fails: the second is never instantiated
C26_Witness ==
    /\ loader_log.call = "load"
    /\ loader_log.raised = "FatalPluginError"
    /\ Len(load_order) = 2
    /\ Position(Failed) = 1
    /\ load_order[2] \notin plugins
    /\ packets = EmptyIndex


\* ------------------------------------------- shutdown, claim C24
\* the plugin classes of the shutdown runs: a chain of three can be loaded
NumLoaded == 3
Loaded == 1..NumLoaded

\* reversed(self.load_order) (plugin_manager.py:228)
Reversed(s) == [i \in 1..Len(s) |-> s[Len(s) + 1 - i]]

\* de_map_plugin_packets(plugin): the plugin's name is popped from every
\* dict of the index (lines 290-293)
DeMapPluginPackets(index, p) ==
    [id \in PacketIds |->
        [w \in Whens |-> SelectSeq(index[id][w], LAMBDA x : x # p)]]

\* the for loop of deactivate_plugins over order from place i on.  The
\* generator looks self.plugins[x] up as the loop reaches x, a KeyError when
\* x was never instantiated; the deactivate() at place fail_at raises
\* FatalPluginError, which is re-raised before the plugin's hooks are removed.
RECURSIVE DeactivateLoop(_, _, _, _)
DeactivateLoop(order, i, st, fail_at) ==
    IF i > Len(order) THEN st
    ELSE LET p == order[i]
         IN IF p \notin plugins
            THEN [st EXCEPT !.raised = "KeyError"]
            ELSE LET called == [st EXCEPT
                                  !.events = Append(@, [name |-> p,
                                                        wired |-> plugin_links[p],
                                                        active |-> st.active])]
                 IN IF i = fail_at
                    THEN [called EXCEPT !.raised = "FatalPluginError"]
                    ELSE DeactivateLoop(order, i + 1,
                             [called EXCEPT
                                !.active = @ \ {p},
                                !.index = DeMapPluginPackets(@, p)],
                             fail_at)

\* deactivate_plugins(), as die() calls it
DeactivatePlugins(fail_at) ==
    /\ ~loader_log.fatal
    /\ loader_log.call # "deactivate"
    /\ LET st == DeactivateLoop(Reversed(load_order), 1,
                     [active |-> plugins, index |-> packets,
                      events |-> <<>>, raised |-> "none"],
                     fail_at)
       IN /\ packets' = st.index
          /\ loader_log' = [call |-> "deactivate", keys |-> plugin_classes,
                            active |-> plugins,
                            critical |-> st.raised = "FatalPluginError",
                            propagated |-> st.raised # "none",
                            fatal |-> st.raised # "none",
                            raised |-> st.raised, events |-> st.events]
    /\ UNCHANGED <<plugin_protocol, do_call, route_vars, class_depends,
                   plugin_classes, plugins, plugins_waiting_to_load,
                   load_order, plugin_links, player_vars, aux_vars>>

InitLifecycle ==
    /\ packets = EmptyIndex
    /\ plugin_protocol = [p \in Loaded |-> None]
    /\ do_call = NoCall
    /\ InitRouteVars
    /\ class_depends = [p \in Loaded |-> {}]
    /\ plugin_classes = {}
    /\ plugins = {}
    /\ plugins_waiting_to_load = {}
    /\ load_order = <<>>
    /\ plugin_links = [p \in Loaded |-> {}]
    /\ loader_log = NoLoaderCall
    /\ InitAuxVars
    /\ InitPlayerVars

\* load_plugins any number of times, then die()
NextLifecycle ==
    \/ \E names \in SUBSET Loaded :
          \E nd \in [names \ plugin_classes -> SUBSET Loaded] :
              /\ loader_log.call # "deactivate"
              /\ LoadPlugins(names, nd)
    \/ \E fail_at \in 0..Len(load_order) : DeactivatePlugins(fail_at)

SpecLifecycle == InitLifecycle /\ [][NextLifecycle]_vars

\* the names whose deactivate() was called, in the order of the calls
Deactivations ==
    [i \in 1..Len(loader_log.events) |-> loader_log.events[i].name]

\* every active plugin's deactivate() was called exactly once
EachOnce ==
    /\ Range(Deactivations) = plugins
    /\ Len(Deactivations) = Cardinality(plugins)

\* a plugin's deactivate() comes before that of every plugin it depends on
DependentsFirst ==
    \A i, j \in 1..Len(Deactivations) :
        Deactivations[j] \in class_depends[Deactivations[i]] => i < j

\* C24: deactivate_plugins, after any sequence of load_plugins calls, calls
\* the deactivation hook of every active plugin exactly once, each plugin
\* before any plugin it depends on, and leaves no hook in the packet-hook
\* index.
C24_AsClaimed ==
    (loader_log.call = "deactivate" /\ loader_log.raised = "none") =>
        /\ EachOnce
        /\ DependentsFirst
        /\ packets = EmptyIndex

\* what does hold: each once, in reverse of the last load order, index empty
ReverseOfLastOrder ==
    (loader_log.call = "deactivate" /\ loader_log.raised = "none") =>
        /\ EachOnce
        /\ Deactivations = Reversed(load_order)
        /\ packets = EmptyIndex


\* ------------------------------------------- after-dispatch, claim C27
\* the delayed calls the reactor can hold
DelayedCalls == [c : Conns, k : 1..MaxPackets, id : PacketIds]

\* the reactor keeps running: a delayed call that is due is eventually made
\* (deferLater(reactor, .01, ...), plugin_manager.py:306-313)
SpecRouteFair ==
    /\ InitRoute
    /\ [][NextRoute]_vars
    /\ \A d \in DelayedCalls : WF_vars(FireAfter(d))

\* every after-dispatch scheduled so far has been run, once
AllRun ==
    /\ delayed = {}
    /\ \A c \in Conns : \A k \in 1..Len(pkts[c]) :
          pkts[c][k].scheduled = 1 => pkts[c][k].after_runs = 1

\* C27: the after-dispatch of a packet is not ordered relative to the next
\* packet of the same connection, whose before hooks can run first; once
\* scheduled, the after-dispatch of a packet is still eventually run:
\* whenever after-dispatches wait in the reactor, a moment follows at which
\* every after-dispatch scheduled until then has been run.
C27_AfterEventuallyRuns == (delayed # {}) ~> AllRun

\* the before hooks of a connection's second packet have just run while the
\* after-dispatch of its first packet is still waiting in the reactor
C27_Witness ==
    /\ last_event.when = "on" /\ last_event.k = 2
    /\ \E i \in 1..Len(last_event.trace) : last_event.trace[i].kind = "on"
    /\ Pending(last_event.c, 1)
    /\ pkts[last_event.c][1].after_runs = 0


\* ------------------------------------------- IP history, claim C28
\* the ips a player's history holds a record of
SeenIps(u) == Range(players[u].ips)

\* C28: after any sequence of successful fetch_or_create calls a player's IP
\* history holds exactly one record per distinct ip the player was seen
\* with, and a brand-new player starts with a history of exactly one entry.
C28_AsClaimed ==
    /\ \A u \in DOMAIN players :
          players[u].exists =>
              /\ players[u].ip \in SeenIps(u)
              /\ Len(players[u].ips) = Cardinality(SeenIps(u))
    /\ fetch_log.called /\ fetch_log.result = "ok" /\ ~fetch_log.existed =>
          players[fetch_log.uuid].ips = <<fetch_log.ip>>


\* ------------------------------------------- block_all, claim C29
\* on_entity_create(data) (lines 248-282) for the actor of the connection and
\* the entities of the packet, as a function of self.block_all
on_entity_create(s, block_all, actor, entities) ==
    IF actor.planet \in s.protected_planets /\ actor.access_level < ADMIN
    THEN IF actor.planet \notin s.keys THEN "Raise"
         ELSE IF actor.org_name \in s.allow[actor.planet] THEN "True"
         ELSE EntityLoop(s, block_all, entities, 1)
    ELSE "None"

\* an entity-create packet passes the hook while self.block_all has the
\* given value
OnEntityCreate(block_all, actor, entities) ==
    /\ protect_log' = [op |-> "entity_create", block_all |-> block_all,
                       planet |-> actor.planet,
                       access_level |-> actor.access_level,
                       org_name |-> actor.org_name,
                       projectile |-> \E i \in 1..Len(entities) :
                                          entities[i] # "object",
                       gated |-> GatedAction(protect, "entity_create",
                                             entities),
                       ret |-> on_entity_create(protect, block_all, actor,
                                                entities),
                       relayed |-> Relayed(on_entity_create(protect,
                                       block_all, actor, entities))]
    /\ UNCHANGED <<protect, rest_vars, util_vars, command_vars, config_vars>>

NextEntityCreate ==
    \/ \E actor \in Actors, target \in Targets : Protect(actor, target)
    \/ \E actor \in Actors, target \in Targets : Unprotect(actor, target)
    \/ \E actor \in {a \in Actors : ~a.on_ship}, block_all \in BOOLEAN :
          \E entities \in EntityLists :
              OnEntityCreate(block_all, actor, entities)

SpecEntityCreate == InitProtect /\ [][NextEntityCreate]_vars

BlockAllUnlisted ==
    (/\ protect_log.op = "entity_create"
     /\ protect_log.block_all
     /\ protect_log.projectile
     /\ protect_log.planet \in protect.protected_planets
     /\ protect_log.planet \in protect.keys
     /\ protect_log.org_name \notin protect.allow[protect_log.planet]
     /\ protect_log.access_level < ADMIN)
        => protect_log.ret = "False" /\ ~protect_log.relayed


\* ------------------------------------------- plugin_config, claim C30
\* the plugins that read plugin_config, by the name attribute of their class
Callers == {"planet_protect", "announcer_plugin"}

\* a namespace: a mapping from option names to values
OptionKeys == {"a"}
OptionValues == {1, 2}
Namespaces == MappingsOver(OptionKeys, OptionValues)
EmptyDict == [k \in {} |-> 1]

\* self.config["plugin_config"]: a dict from plugin names to namespaces
PluginConfigs == UNION {[present -> Namespaces] : present \in SUBSET Callers}

\* dict.update
DictUpdate(m, u) ==
    [k \in DOMAIN m \cup DOMAIN u |-> IF k \in DOMAIN u THEN u[k] ELSE m[k]]

\* __getattr__("plugin_config") for the caller (config.py:69-74): the
\* caller's entry of the document, or a new dict that is no part of it
GetPluginConfig(doc, caller) ==
    IF caller \in DOMAIN doc
    THEN [attached |-> TRUE, val |-> doc[caller]]
    ELSE [attached |-> FALSE, val |-> EmptyDict]

\* what each plugin holds: the mapping plugin_config returned to it, as the
\* plugin left it after its last update
NothingHeld == [c \in Callers |-> [set |-> FALSE, val |-> EmptyDict]]

\* self.config.plugin_config.update(u) in a method of the caller
UpdateThrough(caller, u) ==
    /\ LET r == GetPluginConfig(config.memory, caller)
       IN /\ config' = IF r.attached
                       THEN [config EXCEPT !.memory[caller] = DictUpdate(@, u)]
                       ELSE config
          /\ config_log' = [op |-> "update", caller |-> caller,
                            returned |-> TRUE, value |-> DictUpdate(r.val, u),
                            before |-> config.memory,
                            held |-> [config_log.held EXCEPT ![caller] =
                                        [set |-> TRUE,
                                         val |-> DictUpdate(r.val, u)]]]
    /\ UNCHANGED <<rest_vars, util_vars, command_vars, protect_vars>>

\* self.config.plugin_config in a method of the caller, read only
ReadPluginConfig(caller) ==
    /\ config_log' = [config_log EXCEPT
                         !.op = "read", !.caller = caller, !.returned = TRUE,
                         !.value = GetPluginConfig(config.memory, caller).val,
                         !.before = config.memory]
    /\ UNCHANGED <<config, rest_vars, util_vars, command_vars, protect_vars>>

\* self.config.plugin_config = value in a method of the caller (config.py:
\* 86-91): the entry is stored and the document saved
AssignPluginConfig(caller, value, io) ==
    /\ LET doc == [c \in DOMAIN config.memory \cup {caller} |->
                      IF c = caller THEN value ELSE config.memory[c]]
       IN config' = [config EXCEPT !.memory = doc,
                                   !.disk = IF io = "ok" THEN doc ELSE @]
    /\ config_log' = [op |-> "assign", caller |-> caller,
                      returned |-> (io = "ok"), value |-> value,
                      before |-> config.memory,
                      held |-> [config_log.held EXCEPT ![caller] =
                                  [set |-> TRUE, val |-> value]]]
    /\ UNCHANGED <<rest_vars, util_vars, command_vars, protect_vars>>

\* self.config.save()
SaveStore(io) ==
    /\ config' = SaveConfig(config, io)
    /\ config_log' = [config_log EXCEPT
                         !.op = "save", !.returned = (io = "ok"),
                         !.before = config.memory]
    /\ UNCHANGED <<rest_vars, util_vars, command_vars, protect_vars>>

\* the store is ready on a document whose plugin_config has any entries
InitPluginConfig ==
    /\ InitRest
    /\ InitUtilVars
    /\ InitCommandVars
    /\ InitProtectVars
    /\ \E doc \in PluginConfigs :
          /\ config = [phase |-> "ready", memory |-> doc, disk |-> doc]
          /\ config_log = [op |-> "none", caller |-> "planet_protect",
                           returned |-> TRUE, value |-> EmptyDict,
                           before |-> doc, held |-> NothingHeld]

NextPluginConfig ==
    \/ \E caller \in Callers, u \in Namespaces : UpdateThrough(caller, u)
    \/ \E caller \in Callers : ReadPluginConfig(caller)
    \/ \E caller \in Callers, value \in Namespaces, io \in {"ok", "fails"} :
          AssignPluginConfig(caller, value, io)
    \/ \E io \in {"ok", "fails"} : SaveStore(io)

SpecPluginConfig == InitPluginConfig /\ [][NextPluginConfig]_vars

\* the entries of the other plugins are what they were before the operation
OthersUntouched ==
    \A c \in Callers \ {config_log.caller} :
        /\ c \in DOMAIN config.memory <=> c \in DOMAIN config_log.before
        /\ c \in DOMAIN config.memory =>
              config.memory[c] = config_log.before[c]

\* C30: reading plugin_config returns the namespace of the calling plugin and
\* creates it in the document when it does not exist yet; an update made
\* through the returned mapping is visible in every later plugin_config read
\* by the same plugin and in the persisted document; reads by another plugin
\* never see or change that namespace.
C30_AsClaimed ==
    /\ config_log.op \in {"read", "update"} =>
          /\ config_log.caller \in DOMAIN config.memory
          /\ OthersUntouched
    /\ (config_log.op = "read" /\ config_log.held[config_log.caller].set) =>
          config_log.value = config_log.held[config_log.caller].val
    /\ (config_log.op = "save" /\ config_log.returned) =>
          \A c \in Callers :
              config_log.held[c].set =>
                  /\ c \in DOMAIN config.disk
                  /\ config.disk[c] = config_log.held[c].val

\* what does hold: a plugin that has a namespace in the document sees its
\* updates in later reads and in the saved document, and no read or update
\* touches the namespace of another plugin
ExistingNamespaceShared ==
    /\ config_log.op \in {"read", "update"} => OthersUntouched
    /\ (/\ config_log.op = "read"
        /\ config_log.held[config_log.caller].set
        /\ config_log.caller \in DOMAIN config.memory) =>
          config_log.value = config_log.held[config_log.caller].val
    /\ (config_log.op = "save" /\ config_log.returned) =>
          \A c \in Callers :
              config_log.held[c].set /\ c \in DOMAIN config.disk =>
                  config.disk[c] = config_log.held[c].val


\* ------------------------------------- utility_functions.py, claim C31
\* ceil(n / maximum)
CeilOfMaximum(n) == (n + maximum - 1) \div maximum

\* C31: every frame's count field is min(remaining, 1000) + 1 while the
\* remaining count goes down by min(remaining, 1000) only, so for a requested
\* count n > 0 the count fields sent total n + ceil(n/1000).
C31_TotalSent ==
    (util_call.op = "give_item_to_player" /\ util_call.done
        /\ util_call.count > 0) =>
        /\ \A i \in 1..Len(util_call.frames) :
              util_call.frames[i]
                  = Chunk(util_call.count
                            - Sum(SubSeq(util_call.frames, 1, i - 1))
                            + (i - 1)) + 1
        /\ Sum(util_call.frames)
              = util_call.count + CeilOfMaximum(util_call.count)

\* 2001 items go out as 1001, 1001 and 2: a total of 2004
C31_Witness ==
    /\ util_call.op = "give_item_to_player"
    /\ util_call.done
    /\ util_call.count = 2001
    /\ util_call.frames = <<1001, 1001, 2>>
    /\ Sum(util_call.frames) = 2004


\* ------------------------------------------- rejected logins, claim C32
\* C32: a fetch_or_create call that is rejected (AlreadyLoggedIn or Banned)
\* leaves the player directory unchanged: no record is created or renamed,
\* no ip appended, no connection handle or access level changed, and the ban
\* table is unchanged.
C32_RejectedChangesNothing ==
    [][(fetch_log'.called /\ fetch_log'.result # "ok") =>
          /\ players' = players
          /\ bans' = bans
          /\ admitted' = admitted]_vars

\* a player on record is turned away as banned when coming from another ip
\* than the one on record, which stays the only one in the record's history
C32_Witness ==
    /\ fetch_log.called
    /\ fetch_log.result = "Banned"
    /\ fetch_log.existed
    /\ players[fetch_log.uuid].ip # fetch_log.ip
    /\ players[fetch_log.uuid].ips = <<players[fetch_log.uuid].ip>>
    /\ players[fetch_log.uuid].protocol # None


\* ------------------------------------------- names of the online, claim C33
\* C33: under any interleaving of fetch_or_create calls and login
\* completions across several connections, no two players that are logged
\* in at the same time have names that are equal case-insensitively.
C33_AsClaimed ==
    \A u, v \in DOMAIN players :
        (/\ u # v
         /\ players[u].exists /\ players[u].logged_in
         /\ players[v].exists /\ players[v].logged_in)
            => Lower(players[u].name) # Lower(players[v].name)


\* ------------------------------------------- failed register, claim C34
\* C34: a register call that raises the duplicate-name error leaves the
\* command registry exactly as it was before the call, also when a list of
\* names is given and only a later name of the list is the duplicate.
C34_AsClaimed ==
    (command_log.op = "register" /\ command_log.raised = "KeyError") =>
        commands = command_log.before


\* ------------------------------------------- promote, claims C35 and C36
\* the command changed the target's access level
LevelChanged == util_call.op = "promote" /\ util_call.level # util_call.old_rank

\* C35: every access-level change made by promote sets the target to a level
\* strictly below the issuing actor's level and never to OWNER; a MODERATOR
\* actor can only ever set REGISTERED and an ADMIN actor only REGISTERED or
\* MODERATOR.
C35_SetsBelowActor ==
    LevelChanged =>
        /\ util_call.level < util_call.actor_level
        /\ util_call.level # OWNER
        /\ util_call.actor_level = MODERATOR => util_call.level = REGISTERED
        /\ util_call.actor_level = ADMIN
              => util_call.level \in {REGISTERED, MODERATOR}
        /\ util_call.actor_level >= MODERATOR

\* an admin makes a guest a moderator, the highest level an admin can give
C35_Witness ==
    /\ LevelChanged
    /\ util_call.actor_level = ADMIN
    /\ util_call.old_rank = GUEST
    /\ util_call.req.rank = "moderator"
    /\ util_call.level = MODERATOR

\* C36: promote sends the rank-change confirmation to the actor and the 'has
\* promoted you to' notice to the target only when the target's access level
\* was actually set to the named rank by that command; when the inner level
\* setter is refused by its permission gate, no notification is sent.
C36_AsClaimed ==
    (util_call.op = "promote" /\ util_call.said = "promoted") =>
        util_call.level = MakeLevel(util_call.req.rank)


\* ------------------------------------------- the protect lists, claim C37
\* self.protected_planets is a list and self.player_planets a dict from
\* planets to lists of names: the settings with their lists as sequences
NoDuplicates(s) == \A i, j \in 1..Len(s) : s[i] = s[j] => i = j

\* list.remove(x): the first occurrence goes
RemoveFirst(s, x) ==
    LET at == CHOOSE i \in 1..Len(s) :
                  s[i] = x /\ \A j \in 1..(i - 1) : s[j] # x
    IN [i \in 1..(Len(s) - 1) |-> IF i < at THEN s[i] ELSE s[i + 1]]

\* the lists a run can start from: the protected planets are the keys of
\* player_planets, and nothing is listed twice
StartingLists ==
    UNION {[protected_planets : {pp},
            player_planets : [Range(pp) -> InjSeqs(ActorNames)],
            blacklist : {{"water"}},
            protect_everything : {FALSE}] : pp \in InjSeqs(Planets)}

\* who sends a command: the owner too, whom protect_all asks for
ListActors ==
    [planet : Planets, on_ship : BOOLEAN,
     access_level : {REGISTERED, MODERATOR, OWNER}, org_name : ActorNames]

\* self.player_planets[planet] = [first_name], or the list + [first_name]
\* (lines 121-126, 136-141)
AddToList(s, planet, first_name) ==
    [s EXCEPT !.player_planets =
        [p \in DOMAIN s.player_planets \cup {planet} |->
            IF p # planet THEN s.player_planets[p]
            ELSE IF planet \in DOMAIN s.player_planets
            THEN Append(s.player_planets[planet], first_name)
            ELSE <<first_name>>]]

\* the rest of protect(data) once first_name is known and not found in the
\* planet's list (lines 105-143)
ProtectTail(s, actor, first_name) ==
    LET planet == actor.planet
    IN IF actor.on_ship THEN [settings |-> s, saved |-> FALSE]
       ELSE IF planet \notin Range(s.protected_planets)
       THEN LET t == [s EXCEPT !.protected_planets = Append(@, planet)]
            IN [settings |-> IF first_name # ""
                             THEN AddToList(t, planet, first_name) ELSE t,
                saved |-> TRUE]
       ELSE [settings |-> IF first_name # ""
                          THEN AddToList(s, planet, first_name) ELSE s,
             saved |-> TRUE]

\* protect(data) had it not looked the name up in the planet's list first
ProtectListsUntested(s, actor, target) ==
    IF target = "nobody" THEN [settings |-> s, saved |-> FALSE]
    ELSE ProtectTail(s, actor,
                     IF target = "" THEN actor.org_name ELSE target)

\* protect(data) (lines 65-145); target is "" for no argument, "nobody" for
\* a name the look-up fails for, and else the org_name of the player found
ProtectLists(s, actor, target) ==
    LET first_name == IF target = "" THEN actor.org_name ELSE target
        planet == actor.planet
    IN IF target = "nobody" THEN [settings |-> s, saved |-> FALSE]
       ELSE IF /\ planet \in DOMAIN s.player_planets
               /\ first_name \in Range(s.player_planets[planet])
       THEN [settings |-> s, saved |-> FALSE]
       ELSE ProtectTail(s, actor, first_name)

\* unprotect(data) (lines 187-235); a look-up of player_planets that has no
\* entry for the planet raises KeyError before anything is changed
UnprotectLists(s, actor, target) ==
    LET planet == actor.planet
    IN IF actor.on_ship THEN [settings |-> s, saved |-> FALSE]
       ELSE IF target = ""
       THEN IF planet \in Range(s.protected_planets)
            THEN IF planet \notin DOMAIN s.player_planets
                 THEN [settings |-> s, saved |-> FALSE]
                 ELSE [settings |->
                          [s EXCEPT
                             !.player_planets =
                                 [p \in DOMAIN @ \ {planet} |-> @[p]],
                             !.protected_planets = RemoveFirst(@, planet)],
                       saved |-> TRUE]
            ELSE [settings |-> s, saved |-> TRUE]
       ELSE IF planet \notin DOMAIN s.player_planets
       THEN [settings |-> s, saved |-> FALSE]
       ELSE IF target \in Range(s.player_planets[planet])
       THEN [settings |->
                [s EXCEPT !.player_planets[planet] = RemoveFirst(@, target)],
             saved |-> TRUE]
       ELSE [settings |-> s, saved |-> TRUE]

\* protect_all(data) (lines 147-161): the flag is toggled, on a ship too
ProtectAllLists(s, actor, target) ==
    [settings |-> [s EXCEPT !.protect_everything = ~@], saved |-> TRUE]

\* a command of the plugin behind its permissions gate, followed by
\* self.save() where the body reaches it
ListCommand(name, level, body, actor) ==
    LET gate == Permitted(level, actor.access_level, "None")
        r == IF gate.ran THEN body
             ELSE [settings |-> protect, saved |-> FALSE]
    IN /\ protect' = r.settings
       /\ config' = IF r.saved THEN Saved(config, r.settings, "ok")
                    ELSE config
       /\ protect_log' = [op |-> name, ran |-> gate.ran, saved |-> r.saved,
                          on_ship |-> actor.on_ship, before |-> protect]
       /\ UNCHANGED <<config_log, rest_vars, util_vars, command_vars>>

ProtectCommand(actor, target) ==
    ListCommand("protect", MODERATOR, ProtectLists(protect, actor, target),
                actor)

UnprotectCommand(actor, target) ==
    ListCommand("unprotect", MODERATOR,
                UnprotectLists(protect, actor, target), actor)

ProtectAllCommand(actor) ==
    ListCommand("protect_all", OWNER, ProtectAllLists(protect, actor, ""),
                actor)

\* activate() on a configuration that holds any of the starting lists
InitProtectLists ==
    /\ InitRest
    /\ InitUtilVars
    /\ InitCommandVars
    /\ \E start \in StartingLists :
          /\ protect = start
          /\ LET doc == [top |-> [k \in TopKeys |-> 0],
                         ns_present |-> {"planet_protect"}, ns |-> start]
             IN config = [phase |-> "ready", memory |-> doc, disk |-> doc]
          /\ protect_log = [op |-> "none", ran |-> FALSE, saved |-> FALSE,
                            on_ship |-> FALSE, before |-> start]
    /\ config_log = [op |-> "none"]

NextProtectLists ==
    \/ \E actor \in ListActors, target \in Targets :
          ProtectCommand(actor, target)
    \/ \E actor \in ListActors, target \in Targets :
          UnprotectCommand(actor, target)
    \/ \E actor \in ListActors : ProtectAllCommand(actor)

SpecProtectLists == InitProtectLists /\ [][NextProtectLists]_vars

\* C37: starting with the protected planets equal to the keys of the
\* allow-list map, after any sequence of protect, unprotect and protect_all
\* commands they are still equal, no planet occurs twice in the protected
\* list, no name occurs twice in a planet's allow-list, and a command issued
\* while the actor is on a ship changes none of this.
C37_ListsConsistent ==
    /\ Range(protect.protected_planets) = DOMAIN protect.player_planets
    /\ NoDuplicates(protect.protected_planets)
    /\ \A p \in DOMAIN protect.player_planets :
          NoDuplicates(protect.player_planets[p])
    /\ (protect_log.op # "none" /\ protect_log.on_ship) =>
          /\ protect.protected_planets = protect_log.before.protected_planets
          /\ protect.player_planets = protect_log.before.player_planets

\* both planets are protected, one with two names listed and one whose list
\* an unprotect with a name has just emptied
C37_Witness ==
    /\ protect_log.op = "unprotect"
    /\ protect_log.saved
    /\ Len(protect.protected_planets) = 2
    /\ \E p, q \in DOMAIN protect.player_planets :
          /\ protect.player_planets[p] = <<>>
          /\ protect_log.before.player_planets[p] # <<>>
          /\ Len(protect.player_planets[q]) = 2


\* ------------------------------------------- the connection a plugin is bound to
\* the plugin whose hook for the chat packet is on_chat_sent
Dispatcher == 1

\* f.__self__: the plugin instance each registered bound method belongs to
HandlerSelf(f) == IF f = "h1" THEN 2 ELSE NumPlugins

\* self.commands once the plugins have registered their commands
BoundCommands ==
    [n \in CommandNames |->
        IF n = "who" THEN "h1" ELSE IF n = "ban" THEN "h2" ELSE Unset]

\* the hooks do has called when the hook of plugin p is running
UpTo(invoked, p) ==
    SubSeq(invoked, 1, CHOOSE i \in 1..Len(invoked) : invoked[i] = p)

\* self.protocol read in a method of the instance of p: the instance's own
\* attribute if it has one, the attribute of its class otherwise. The index
\* holds what activate_plugins passed to map_plugin_packets, the class, so
\* do assigns the class's attribute (cls) and on_chat_sent the instance's
SelfProtocol(inst, cls, p) == IF p \in DOMAIN inst THEN inst[p] ELSE cls[p]

\* self.commands[command].__self__.protocol = self.protocol
BindHandler(inst, owner, protocol) ==
    [p \in DOMAIN inst \cup {owner} |->
        IF p = owner THEN protocol ELSE inst[p]]

\* the protocol frames the next packet of connection c and calls its
\* route-wrapped handler; the hook of the dispatcher for a chat packet is
\* on_chat_sent, which runs inside do and calls the command's handler
RouteChat(c) ==
    /\ inbox[c] # <<>>
    /\ LET k == Head(inbox[c])
           id == pkts[c][k].id
           hooks == HooksFor(packets, id, "on")
       IN \E message \in ChatMessages, conduct \in CommandOutcomes,
             res \in [Range(hooks) -> Outcomes], h \in HandlerOutcomes :
            LET out == OnChatSentResult(commands, message, conduct)
                r == DoResult(packets, c, "on", id, res)
                called == Dispatcher \in Range(r.invoked) /\ out.called
                owner == IF called
                         THEN HandlerSelf(commands[message.words[1]])
                         ELSE Dispatcher
                read == IF called
                        THEN SelfProtocol(instance_protocol,
                                 BindProtocol(plugin_protocol, c,
                                              UpTo(r.invoked, Dispatcher)),
                                 Dispatcher)
                        ELSE None
                handler == IF r.ret THEN h ELSE "none"
                n == Deferred(r.ret, handler)
            IN /\ Dispatcher \in Range(hooks) => res[Dispatcher] = out.ret
               /\ plugin_protocol' = BindProtocol(plugin_protocol, c, r.invoked)
               /\ instance_protocol' =
                    IF called THEN BindHandler(instance_protocol, owner, read)
                    ELSE instance_protocol
               /\ command_log' =
                    IF called
                    THEN [op |-> "handler", c |-> c, self |-> owner,
                          bound |-> read]
                    ELSE [op |-> "none"]
               /\ entered' = [entered EXCEPT ![c] = Append(@, k)]
               /\ last_event' = [c |-> c, k |-> k, when |-> "on",
                                 trace |-> RouteTrace(r.invoked, r.ret)]
               /\ pkts' = [pkts EXCEPT ![c][k] =
                              [@ EXCEPT !.before = IF r.ret THEN "true"
                                                   ELSE "false",
                                        !.handler = handler,
                                        !.scheduled = n]]
               /\ delayed' = Scheduled(delayed, c, k, id, n)
    /\ inbox' = [inbox EXCEPT ![c] = Tail(@)]
    /\ UNCHANGED <<packets, do_call, loader_vars, player_vars, commands,
                   util_vars, protect_vars, config_vars>>

InitBound ==
    /\ packets = AllHooked
    /\ plugin_protocol = [p \in Plugins |-> None]
    /\ do_call = NoCall
    /\ InitRouteVars
    /\ InitLoaderVars
    /\ InitPlayerVars
    /\ InitUtilVars
    /\ InitProtectVars
    /\ InitConfigVars
    /\ commands = BoundCommands
    /\ command_log = [op |-> "none"]
    /\ instance_protocol = NoAttribute

NextBound ==
    \/ \E c \in Conns : Arrive(c)
    \/ \E c \in Conns : RouteChat(c)
    \/ \E d \in delayed : FireAfter(d)

SpecBound == InitBound /\ [][NextBound]_vars

\* the hooks the most recent reactor callback called
HooksRun ==
    {last_event.trace[i].p :
        i \in {j \in 1..Len(last_event.trace) :
                  last_event.trace[j].kind \in Whens}}

\* C38: every hook a dispatch has called, at either timing, reads as
\* self.protocol the connection whose packet the dispatch is for, and a
\* command handler runs with its plugin instance bound to the connection that
\* sent the chat message, whatever other connections' packets and delayed
\* after-dispatches have run before
C38_AsClaimed ==
    /\ last_event.c # None =>
          \A p \in HooksRun :
              SelfProtocol(instance_protocol, plugin_protocol, p)
                  = last_event.c
    /\ command_log.op = "handler" => command_log.bound = command_log.c

====
